---- MODULE Spec2Model ----
(***************************************************************************)
(* State-machine model of MpvController (src/unnamed/part_001): the        *)
(* supervisor of the external mpv engine, its JSON-IPC client, command     *)
(* queue, watchdogs and recovery.                                          *)
(*                                                                         *)
(* One action is one event-loop task (a public call, a timer callback, a   *)
(* socket callback) or one promise continuation (a microtask).  Microtasks *)
(* run before any further task, in FIFO order.  The synchronous methods of *)
(* the class are operators over a record holding the whole state, so that  *)
(* a method calling another composes as in the source.                     *)
(***************************************************************************)
EXTENDS Integers, Sequences, FiniteSets, TLC

\* ---------------------------------------------------------------- bounds
MaxOps == 2        \* public method invocations in one run
MaxReq == 14       \* request ids allocated in one run
MaxFaults == 1     \* faults (error reply, hang, crash, spawn error, failed connect)
MaxEvents == 3     \* spontaneous engine events (file lifecycle, progress)
MaxLines == 3      \* lines in the text the socket delivers to the framer

\* A run is bounded by one of these budgets.
Budget(o, f, e, r) == [ops |-> o, faults |-> f, events |-> e, reqs |-> r]
Budgets ==
  { Budget(MaxOps, 0, MaxEvents - 2, MaxReq - 4),
    Budget(MaxOps - 1, 0, MaxEvents, MaxReq - 4),
    Budget(MaxOps - 1, MaxFaults, MaxEvents - 1, MaxReq) }

\* The budgets of the runs in which the engine hangs or fails to come up.
RecoveryBudgets ==
  { Budget(MaxOps, MaxFaults, 0, MaxReq),
    Budget(MaxOps - 1, MaxFaults + 1, MaxEvents - 2, MaxReq) }

\* ------------------------------------------------------ program constants
MAX_SOCKET_RETRIES == 8

Urls == {"a.mp3"}
NULL == "null"
Phases == {"None", "Buffering", "Playing", "Paused"}   \* PlayerState; None is the Idle phase

VARIABLES
  \* fields of MpvController
  mpvProcess,        \* TRUE iff the process handle is not null
  socket,            \* "null" | "connecting" | "open"
  socketRetry,       \* the retryCount the socket's error handler closes over
  isReady,
  commandQueue,      \* sequence of commands
  commandCallbacks,  \* the request ids that have a callback registered
  requestIdCounter,
  lastProgress,      \* [currentTime, duration]
  currentUrl,        \* a url or NULL
  loop,
  isStopping,
  watchdogTimer,     \* TRUE iff the stall-watchdog interval is armed
  fileLoadTimeout,   \* TRUE iff the file-load timer is armed
  isRecovering,
  lastKnownState,
  \* the environment: platform, engine process, socket, timers, promises
  platform,          \* process.platform: "win32" | "posix"
  engine,            \* the engine process of the current session
  wire,              \* requests written to the socket, not yet executed
  inbound,           \* messages the engine sent, not yet handled
  promise,           \* request id -> "unused" | "pending" | "resolved" | "rejected"
  reqTimers,         \* request ids whose sendCommand timeout is armed
  tasks,             \* suspended async functions (awaiting a reply or a timer)
  micro,             \* the microtask queue: continuations ready to run
  timers,            \* armed setTimeout callbacks of connect/retry/unpause
  armedAt,           \* when the watchdog, file-load and request timers were armed
  emitted,           \* notifications emitted by the last step, in order
  \* history
  written,           \* tags of the commands written to the socket, in order
  issueCount,        \* sendCommand calls so far (each command array gets a tag)
  queuedTags,        \* tags of the commands that were put on the queue
  clearedTags,       \* tags of the queued commands dropped by stop()
  opLog,             \* the public methods called so far, with what each found
  budget,            \* the run's budget of operations, faults and events
  opCount, faults, events,
  spawnCount,        \* engine processes spawned so far
  killAttempts,      \* kill attempts on the process of the current session
  orphans,           \* engine processes still running that the controller let go of
  addresses,         \* the --input-ipc-server address of each spawn, in order
  tally,             \* finished and error notifications emitted so far, the tags
                     \* of play()'s loadfile commands, the tags of the commands
                     \* rejected for want of a socket, the URL the last
                     \* load() or play() stored, for each connection
                     \* attempt the spawn that started its chain of retries,
                     \* the chain the socket's error handler belongs to, and the
                     \* verb and property of each command by its tag; the
                     \* number of checkReady loops of recover() that have a
                     \* 100 ms timer pending; the connection attempts still in
                     \* flight on a socket this.socket no longer refers to
  settled,           \* request id -> number of times its promise was settled
  buffer,            \* the text received and not yet split into lines
  feed,              \* the text the socket will still deliver, the text it has
                     \* delivered, the messages handed to handleMpvMessage, and
                     \* the lines dispatched and dropped by the last chunk
  last               \* what the last step was

vars == << mpvProcess, socket, socketRetry, isReady, commandQueue, commandCallbacks,
           requestIdCounter, lastProgress, currentUrl, loop, isStopping,
           watchdogTimer, fileLoadTimeout, isRecovering, lastKnownState,
           platform, engine, wire, inbound, promise, reqTimers, tasks, micro,
           timers, armedAt, opLog, emitted, written, issueCount, queuedTags, clearedTags,
           budget, opCount, faults, events, spawnCount, killAttempts, orphans, addresses, tally, settled,
           buffer, feed, last >>

ReqIds == 1..MaxReq

\* The whole state as one record; the scratch fields (ret, tl, re) carry a
\* call's result and the environment's choices and are not part of the state.
cur ==
  [ mpvProcess |-> mpvProcess, socket |-> socket, socketRetry |-> socketRetry,
    isReady |-> isReady,
    commandQueue |-> commandQueue, commandCallbacks |-> commandCallbacks,
    requestIdCounter |-> requestIdCounter, lastProgress |-> lastProgress,
    currentUrl |-> currentUrl, loop |-> loop, isStopping |-> isStopping,
    watchdogTimer |-> watchdogTimer, fileLoadTimeout |-> fileLoadTimeout,
    isRecovering |-> isRecovering, lastKnownState |-> lastKnownState,
    platform |-> platform, engine |-> engine, wire |-> wire,
    inbound |-> inbound, promise |-> promise, reqTimers |-> reqTimers,
    tasks |-> tasks, micro |-> micro, timers |-> timers, armedAt |-> armedAt,
    opLog |-> opLog,
    emitted |-> << >>,
    written |-> written, issueCount |-> issueCount, queuedTags |-> queuedTags,
    clearedTags |-> clearedTags, opCount |-> opCount, faults |-> faults,
    events |-> events, budget |-> budget, spawnCount |-> spawnCount,
    killAttempts |-> killAttempts, orphans |-> orphans, addresses |-> addresses,
    tally |-> tally,
    settled |-> settled, buffer |-> buffer, feed |-> feed, last |-> last,
    ret |-> [how |-> "none", rid |-> 0], tl |-> FALSE, re |-> FALSE ]

InBounds(s) ==
  /\ s.requestIdCounter <= s.budget.reqs + 1
  /\ s.opCount <= s.budget.ops
  /\ s.faults <= s.budget.faults
  /\ s.events <= s.budget.events

\* `const v = e; ...`: the rest of a method, F, runs on the value of e.
Let(v, F(_)) == F(v)

\* ------------------------------------------------------------------- timers
\* Time is kept as the order in which the pending timers were armed: the
\* timers armed in the current step carry Now, and at the end of the step the
\* stamps in use are renumbered 1, 2, ... in order (0: not armed).
Now == 99

\* Durations, in units of 100 ms.
TaskDur(pc) ==
  IF pc = "hcWait" THEN 10           \* healthCheck's backoff
  ELSE IF pc = "recSettle" THEN 20   \* recover()'s settle delay
  ELSE IF pc = "recRetry" THEN 30    \* recover()'s wait before its retry
  ELSE IF pc = "shc" THEN 30         \* safeHealthCheck's race
  ELSE IF pc = "hc1" THEN 50         \* healthCheck's race
  ELSE 150                           \* recReady: recover()'s startup timeout

Pow2(n) == IF n = 0 THEN 1 ELSE IF n = 1 THEN 2 ELSE IF n = 2 THEN 4 ELSE 8

TimerDur(tm) ==
  IF tm.t = "connect" THEN 5
  ELSE IF tm.t = "unpause" THEN 10
  ELSE 10 * Pow2(tm.n)               \* retry: min(1000 * 2^n, 8000) ms

RequestDur == 150
WatchdogDur == 300
FileLoadDur == 600

TimerPcs == {"hcWait", "recSettle", "recRetry", "shc", "hc1", "recReady"}

\* The stall watchdog's next tick would pass its first guard.
TickRuns(s) == s.watchdogTimer /\ ~(s.isRecovering \/ ~s.mpvProcess \/ ~s.isReady)

PendingTimers(s) ==
  { [at |-> s.armedAt.req[id], dur |-> RequestDur] : id \in s.reqTimers }
  \cup { [at |-> t.at, dur |-> TaskDur(t.pc)] : t \in { x \in s.tasks : x.pc \in TimerPcs } }
  \cup { [at |-> tm.at, dur |-> TimerDur(tm)] : tm \in s.timers }
  \cup (IF TickRuns(s) THEN { [at |-> s.armedAt.watchdog, dur |-> WatchdogDur] } ELSE {})
  \cup (IF s.fileLoadTimeout THEN { [at |-> s.armedAt.fileLoad, dur |-> FileLoadDur] } ELSE {})

\* A timer armed at `at` for `dur` can be the next to fire: no pending timer
\* armed no later expires before it.
CanFire(s, at, dur) ==
  \A y \in PendingTimers(s) :
    ~((y.at < at /\ y.dur <= dur) \/ (y.at <= at /\ y.dur < dur))

Stamps(s) == ({ y.at : y \in PendingTimers(s) } \cup {s.armedAt.watchdog}) \ {0}
Rank(S, x) == IF x = 0 THEN 0 ELSE Cardinality({ y \in S : y <= x })

Renumber(s) ==
  Let(Stamps(s), LAMBDA S :
  [s EXCEPT
     !.armedAt = [watchdog |-> IF s.watchdogTimer THEN Rank(S, @.watchdog) ELSE 0,
                  fileLoad |-> IF s.fileLoadTimeout THEN Rank(S, @.fileLoad) ELSE 0,
                  req |-> [id \in DOMAIN @.req |->
                             IF id \in s.reqTimers THEN Rank(S, @.req[id]) ELSE 0]],
     !.tasks = { [x EXCEPT !.at = IF x.pc \in TimerPcs THEN Rank(S, @) ELSE 0] : x \in @ },
     !.timers = { [x EXCEPT !.at = Rank(S, @)] : x \in @ }])

Committed(s) ==
  /\ mpvProcess' = s.mpvProcess /\ socket' = s.socket /\ isReady' = s.isReady
  /\ socketRetry' = s.socketRetry
  /\ commandQueue' = s.commandQueue /\ commandCallbacks' = s.commandCallbacks
  /\ requestIdCounter' = s.requestIdCounter /\ lastProgress' = s.lastProgress
  /\ currentUrl' = s.currentUrl /\ loop' = s.loop /\ isStopping' = s.isStopping
  /\ watchdogTimer' = s.watchdogTimer /\ fileLoadTimeout' = s.fileLoadTimeout
  /\ isRecovering' = s.isRecovering /\ lastKnownState' = s.lastKnownState
  /\ platform' = s.platform /\ engine' = s.engine /\ wire' = s.wire
  /\ inbound' = s.inbound /\ promise' = s.promise /\ reqTimers' = s.reqTimers
  /\ tasks' = s.tasks /\ micro' = s.micro /\ timers' = s.timers
  /\ armedAt' = s.armedAt /\ opLog' = s.opLog
  /\ emitted' = s.emitted /\ written' = s.written /\ issueCount' = s.issueCount
  /\ queuedTags' = s.queuedTags /\ clearedTags' = s.clearedTags
  /\ opCount' = s.opCount /\ faults' = s.faults /\ events' = s.events
  /\ budget' = s.budget
  /\ spawnCount' = s.spawnCount /\ killAttempts' = s.killAttempts
  /\ orphans' = s.orphans /\ addresses' = s.addresses /\ tally' = s.tally
  /\ settled' = s.settled /\ buffer' = s.buffer /\ feed' = s.feed
  /\ last' = s.last

Commit(r) == InBounds(r) /\ Committed(Renumber(r))


\* ------------------------------------------------------------- notifications
StateChange(p) == [n |-> "state-change", p |-> p, t |-> 0, d |-> 0]
ProgressUpdate(t, d) == [n |-> "progress-update", p |-> NULL, t |-> t, d |-> d]
Finished == [n |-> "finished", p |-> NULL, t |-> 0, d |-> 0]
ErrorNote == [n |-> "error", p |-> NULL, t |-> 0, d |-> 0]

emit(s, note) ==
  [s EXCEPT !.emitted = Append(@, note),
            !.tally.finished = IF note.n = "finished" THEN @ + 1 ELSE @,
            !.tally.errors = IF note.n = "error" THEN @ + 1 ELSE @]

\* ------------------------------------------------------------------ commands
\* A command array ['verb', ...]: v the verb, p the property (or loadfile's
\* url), a the value; n tags the array object (0 until sendCommand sees it).
Cmd(v, p, a) == [v |-> v, p |-> p, a |-> a, n |-> 0]

\* A suspended async function: k the function, pc the await it is at, rid the
\* request it awaits (0: a timer), arg its argument, rurl/wasPlaying the
\* locals of recover(), ok/val the outcome of the awaited promise; sp is the
\* number of processes spawned before the function called recover(); at is
\* when the timer it waits on (or races) was armed.
\* healthCheck's probes: not sent yet, or rejected by sendCommand at once
NoProbe == -1
Unsent == -2

Task(k, pc, arg) ==
  [k |-> k, pc |-> pc, rid |-> 0, arg |-> arg, rurl |-> NULL,
   wasPlaying |-> FALSE, ok |-> TRUE, val |-> 0, sp |-> 0, at |-> 0, hops |-> 0,
   probe1 |-> NoProbe, probe2 |-> NoProbe, expired |-> FALSE]

Message(event, name, data, reason) ==
  [event |-> event, name |-> name, data |-> data, reason |-> reason,
   request_id |-> 0, error |-> NULL]
Reply(id, error, data) ==
  [event |-> NULL, name |-> NULL, data |-> data, reason |-> NULL,
   request_id |-> id, error |-> error]

\* What the last step was: the action, the message it handled, its argument,
\* the phases it assigned to lastKnownState in order,
\* and the calls of stop(), recover() and the public methods made in it, each
\* with the state it found.
NoMsg == Message(NULL, NULL, -1, NULL)
Last(a, msg, arg) ==
  [a |-> a, msg |-> msg, arg |-> arg, calls |-> << >>, set |-> << >>]

Snap(s, f, arg, n) ==
  [f |-> f, arg |-> arg, n |-> n, url |-> s.currentUrl, proc |-> s.mpvProcess,
   ready |-> s.isReady, stopping |-> s.isStopping, rec |-> s.isRecovering,
   loop |-> s.loop, phase |-> s.lastKnownState,
   wd |-> s.watchdogTimer, fl |-> s.fileLoadTimeout,
   q |-> Len(s.commandQueue), cb |-> Cardinality(s.commandCallbacks),
   pending |-> s.commandCallbacks, timers |-> s.reqTimers, promise |-> s.promise,
   buffer |-> s.buffer,
   w |-> Len(s.written), i |-> s.issueCount, e |-> Len(s.emitted),
   kills |-> s.killAttempts, spawns |-> s.spawnCount]

calledN(s, f, arg, n) == [s EXCEPT !.last.calls = Append(@, Snap(s, f, arg, n))]
called(s, f, arg) == calledN(s, f, arg, 0)

\* --------------------------------------------------------------- promises
\* The promise of request id is settled; the async function awaiting it (at
\* most one) becomes a microtask carrying the outcome.
\* The promise reactions that run, each in a microtask of its own, between
\* the settling of sendCommand's promise and the continuation of the function
\* that awaits it: none for a plain `await p` or `p.then(f)`; one for
\* `await p.catch(f)` (the promise catch returns) and for an await inside
\* healthCheck (the promise of the async function its caller awaits); two for
\* the probes awaited through Promise.race inside healthCheck and
\* safeHealthCheck.
Hops(t) ==
  IF t.pc \in {"hc1", "shc"} THEN 2
  ELSE IF t.pc \in {"hc2", "poll", "flush"} THEN 1
  ELSE 0

Settle(s, id, ok, val) ==
  LET waiting == {t \in s.tasks : t.rid = id}
      s1 == [s EXCEPT !.promise[id] = IF ok THEN "resolved" ELSE "rejected",
                      !.settled[id] = @ + 1]
  IN IF waiting = {} THEN s1
     ELSE LET t == CHOOSE x \in waiting : TRUE
          IN [s1 EXCEPT !.tasks = @ \ {t},
                        !.micro = Append(@, [t EXCEPT !.ok = ok, !.val = val, !.at = 0,
                                                     !.hops = Hops(t)])]

\* ------------------------------------------------------------ sendCommand
sendCommand(s, command0, isInternal) ==
  LET fresh == command0.n = 0 /\ ~isInternal
      command == IF fresh THEN [command0 EXCEPT !.n = s.issueCount + 1] ELSE command0
      s0 == IF fresh THEN [s EXCEPT !.issueCount = @ + 1,
                                     !.tally.issued =
                                       Append(@, [v |-> command0.v, p |-> command0.p])]
            ELSE s
      pushed == [s0 EXCEPT !.commandQueue = Append(@, command),
                           !.queuedTags = @ \cup {command.n}]
  IN IF ~s0.isReady /\ ~isInternal
     THEN [pushed EXCEPT !.ret = [how |-> "resolved", rid |-> 0]]
     ELSE IF s0.socket = NULL
     THEN [(IF isInternal THEN s0 ELSE pushed) EXCEPT
              !.tally.unsent = IF isInternal THEN @ ELSE @ \cup {command.n},
              !.ret = [how |-> "rejected", rid |-> 0]]
     ELSE LET requestId == s0.requestIdCounter
          IN [s0 EXCEPT
                !.requestIdCounter = @ + 1,
                !.reqTimers = @ \cup {requestId},
                !.armedAt.req = IF requestId \in DOMAIN @
                                THEN [@ EXCEPT ![requestId] = Now] ELSE @,
                !.commandCallbacks = @ \cup {requestId},
                !.promise = IF requestId \in DOMAIN @
                            THEN [@ EXCEPT ![requestId] = "pending"] ELSE @,
                !.wire = Append(@, [id |-> requestId, cmd |-> command]),
                !.written = Append(@, command.n),
                !.ret = [how |-> "pending", rid |-> requestId]]

\* The callback sendCommand registers: clearTimeout, then resolve or reject.
callback(s, id, err, data) ==
  Settle([s EXCEPT !.reqTimers = @ \ {id}], id, err = NULL, data)

\* A timeout that clears the whole pending map.
requestTimeoutAll(s0, id) ==
  LET s == calledN(s0, "requestTimeout", NULL, id)
      s1 == [s EXCEPT !.reqTimers = @ \ {id}]
  IN IF id \in s1.commandCallbacks
     THEN Settle([s1 EXCEPT !.commandCallbacks = {}], id, FALSE, 0)
     ELSE s1

\* The timeout sendCommand arms.
requestTimeout(s0, id) ==
  LET s == calledN(s0, "requestTimeout", NULL, id)
      s1 == [s EXCEPT !.reqTimers = @ \ {id}]
  IN IF id \in s1.commandCallbacks
     THEN Settle([s1 EXCEPT !.commandCallbacks = @ \ {id}], id, FALSE, 0)
     ELSE s1

\* ---------------------------------------------------------------- watchdogs
stopWatchdog(s) == [s EXCEPT !.watchdogTimer = FALSE, !.fileLoadTimeout = FALSE]

startWatchdog(s) ==
  [stopWatchdog(s) EXCEPT !.watchdogTimer = TRUE, !.armedAt.watchdog = Now]

\* ---------------------------------------------------------------------- stop
QueueTags(q) == {q[i].n : i \in DOMAIN q}

DeadEngine(e) == [e EXCEPT !.alive = FALSE]

\* s.tl: execSync(tasklist) throws, which the code reads as "process already
\* exited".  tasklist exits 0 whether or not a process matches the filter and
\* fails on a filter it cannot parse, as when spawn failed and pid is undefined.
\* s.re: a state-change listener calls stop() again during the emit.
\* On win32 taskkill /f /t ends the process.  Elsewhere the signal goes to the
\* process group -pid; the engine is spawned without `detached`, so it leads
\* no group, process.kill throws ESRCH, which the code swallows, and the
\* process keeps running.
Killed(s) == s.platform = "win32"
LetGo(s) == IF s.engine.alive THEN s.orphans + 1 ELSE s.orphans
RECURSIVE stop(_)
\* stop() past its guard
stopBody(s) ==
  Let([stopWatchdog([s EXCEPT !.isStopping = TRUE]) EXCEPT
         !.isReady = FALSE, !.currentUrl = NULL, !.buffer = << >>,
         !.commandCallbacks = {},
         !.socket = NULL,
         !.wire = IF s.socket # NULL THEN << >> ELSE @,
         !.inbound = IF s.socket # NULL THEN << >> ELSE @], LAMBDA s2 :
  IF s2.mpvProcess /\ s2.platform = "win32" /\ s2.tl
  THEN [s2 EXCEPT !.mpvProcess = FALSE,      \* tasklist throws: finally, return
                  !.orphans = LetGo(s2), !.engine = DeadEngine(@)]
  ELSE
  Let([s2 EXCEPT !.mpvProcess = FALSE,
                 !.killAttempts = IF s2.mpvProcess THEN @ + 1 ELSE @,
                 !.orphans = IF s2.mpvProcess /\ ~Killed(s2) THEN LetGo(s2) ELSE @,
                 !.engine = IF s2.mpvProcess THEN DeadEngine(@) ELSE @,
                 !.clearedTags = @ \cup QueueTags(s2.commandQueue),
                 !.commandQueue = << >>], LAMBDA s3 :
  Let(emit(s3, StateChange("None")), LAMBDA s4 :
  Let(IF s4.re THEN stop([s4 EXCEPT !.re = FALSE]) ELSE s4, LAMBDA s5 :
  [s5 EXCEPT !.isStopping = FALSE]))))

stopAlways(s) == called(stopBody(called(s, "stop", NULL)), "stop.return", NULL)

stop(s) ==
  Let(called(s, "stop", NULL), LAMBDA s1 :
  called(IF s1.isStopping THEN s1 ELSE stopBody(s1), "stop.return", NULL))

\* ------------------------------------------------- startMpvProcess, connect
\* The module constant: nanoid(8) is evaluated once, when the module loads.
socketPath == "mpvsocket-nanoid"

FreshEngine ==
  [alive |-> TRUE, hung |-> FALSE, pause |-> FALSE, file |-> "idle",
   observed |-> {}]

connect(s, retryCount) ==
  IF retryCount > 15 THEN emit(s, ErrorNote)
  ELSE [s EXCEPT !.timers = @ \cup {[t |-> "connect", n |-> retryCount,
                                     e |-> IF retryCount = 0 THEN s.spawnCount
                                           ELSE s.tally.chain,
                                     at |-> Now]}]

startMpvProcess(s) ==
  LET s1 == IF s.mpvProcess THEN stop(s) ELSE s
      s2 == [s1 EXCEPT !.mpvProcess = TRUE, !.spawnCount = @ + 1,
                       !.orphans = IF s1.mpvProcess THEN LetGo(s1) ELSE @,
                       !.addresses = Append(@, socketPath),
                       !.killAttempts = 0, !.engine = FreshEngine]
  IN connect(emit(s2, StateChange("Buffering")), 0)


\* -------------------------------------------------------- handleMpvMessage
\* msg.data: a number, or -1 for a value that is not a number; the pause
\* property's data is 1 (true) or 0 (false).
\* An assignment of the phase that notifies nobody.
setStateSilent(s, p) == [s EXCEPT !.lastKnownState = p, !.last.set = Append(@, p)]

setState(s, p) ==
  emit([s EXCEPT !.lastKnownState = p, !.last.set = Append(@, p)], StateChange(p))

\* the duration / time-pos branch
propertyChangeAlways(s, msg) ==
  IF msg.name = "duration" /\ msg.data >= 0
  THEN [s EXCEPT !.lastProgress.duration = msg.data]
  ELSE IF msg.name = "time-pos" /\ msg.data >= 0
  THEN emit([s EXCEPT !.lastProgress.currentTime = msg.data],
            ProgressUpdate(msg.data, s.lastProgress.duration))
  ELSE s

propertyChange(s, msg) ==
  IF msg.name = "duration" /\ msg.data >= 0
  THEN [s EXCEPT !.lastProgress.duration = msg.data]
  ELSE IF msg.name = "time-pos" /\ msg.data >= 0
  THEN IF s.lastProgress.duration > 0
       THEN emit([s EXCEPT !.lastProgress.currentTime = msg.data],
                 ProgressUpdate(msg.data, s.lastProgress.duration))
       ELSE [s EXCEPT !.lastProgress.currentTime = msg.data]
  ELSE s

\* the end-file branch (reason eof or error)
endFileKeepsWatchdog(s) ==
  emit(setState([called(s, "end-file", NULL) EXCEPT !.fileLoadTimeout = FALSE,
                          !.lastProgress = [currentTime |-> 0, duration |-> 0]],
                "None"), Finished)

endFile(s) ==
  emit(setState([stopWatchdog(called(s, "end-file", NULL)) EXCEPT
                   !.lastProgress = [currentTime |-> 0, duration |-> 0]],
                "None"), Finished)

handleMpvMessage(s, msg) ==
  Let(IF msg.event = "property-change" /\ msg.name = "pause"
      THEN setState(s, IF msg.data = 1 THEN "Paused" ELSE "Playing")
      ELSE s, LAMBDA s1 :
  IF msg.event = "start-file"
  THEN [setState(s1, "Buffering") EXCEPT !.fileLoadTimeout = TRUE,
                                         !.armedAt.fileLoad = Now]
  ELSE IF msg.event = "file-loaded"
  THEN IF s1.lastKnownState # "Paused"
       THEN setState([s1 EXCEPT !.fileLoadTimeout = FALSE], "Playing")
       ELSE [s1 EXCEPT !.fileLoadTimeout = FALSE]
  ELSE IF msg.event = "property-change" THEN propertyChange(s1, msg)
  ELSE IF msg.event = "end-file" /\ msg.reason \in {"eof", "error"} THEN endFile(s1)
  ELSE IF msg.request_id # 0 /\ msg.request_id \in s1.commandCallbacks
  THEN [callback(s1, msg.request_id, IF msg.error = "success" THEN NULL
                                      ELSE msg.error, msg.data)
          EXCEPT !.commandCallbacks = @ \ {msg.request_id}]
  ELSE s1)

\* ------------------------------------------------------------ handleSocketData
\* Text is a sequence of characters.  The engine's messages are one-member
\* JSON objects, written { key }: s is the start-file event, f file-loaded,
\* p the pause property turning true.
Newline == "\n"
Keys == {"s", "f", "p"}

\* JSON.parse returns a value for a complete object and throws otherwise.
Parses(line) ==
  Len(line) = 3 /\ line[1] = "{" /\ line[3] = "}" /\ line[2] \in Keys

JSONparse(line) ==
  IF line[2] = "s" THEN Message("start-file", NULL, 0, NULL)
  ELSE IF line[2] = "f" THEN Message("file-loaded", NULL, 0, NULL)
  ELSE Message("property-change", "pause", 1, NULL)

\* buffer.indexOf('\n'), counted from 1; 0 when there is none.
indexOf(text) ==
  LET at == {i \in DOMAIN text : text[i] = Newline}
  IN IF at = {} THEN 0 ELSE CHOOSE i \in at : \A j \in at : i <= j

slice(text, from) == SubSeq(text, from, Len(text))

\* A line handler whose parse failure discards the rest of the buffer.
handleLineAborts(s, line) ==
  IF line = << >> THEN s
  ELSE IF Parses(line)
  THEN handleMpvMessage([s EXCEPT !.feed.dispatched = Append(@, JSONparse(line)),
                                  !.feed.got = @ + 1], JSONparse(line))
  ELSE [s EXCEPT !.feed.bad = @ + 1, !.buffer = << >>]

\* The body of the loop for one extracted line: an empty line is skipped, a
\* line that parses is handled, and a parse error is logged.
handleLine(s, line) ==
  IF line = << >> THEN s
  ELSE IF Parses(line)
  THEN handleMpvMessage([s EXCEPT !.feed.dispatched = Append(@, JSONparse(line)),
                                  !.feed.got = @ + 1], JSONparse(line))
  ELSE [s EXCEPT !.feed.bad = @ + 1]

RECURSIVE extractLines(_)
extractLines(s) ==
  LET newlineIndex == indexOf(s.buffer)
  IN IF newlineIndex = 0 THEN s
     ELSE extractLines(handleLine([s EXCEPT !.buffer = slice(@, newlineIndex + 1)],
                                  SubSeq(s.buffer, 1, newlineIndex - 1)))

\* A framer that keeps only the newest chunk.
handleSocketDataReplaces(s, data) ==
  extractLines([called(s, "handleSocketData", NULL) EXCEPT
                  !.buffer = data, !.feed.got = 0, !.feed.bad = 0])

handleSocketData(s, data) ==
  extractLines([called(s, "handleSocketData", NULL) EXCEPT
                  !.buffer = @ \o data, !.feed.got = 0, !.feed.bad = 0])

\* The file-load timer armed by start-file fires.
fileLoadTimeoutFired(s) == emit([s EXCEPT !.fileLoadTimeout = FALSE], Finished)

\* ------------------------------------------------------------------- awaits
\* `await p` on the promise the last sendCommand returned: suspend on the
\* request, or continue in a microtask when p is already settled.
Await(s, t) ==
  IF s.ret.how = "pending"
  THEN [s EXCEPT !.tasks = @ \cup {[t EXCEPT !.rid = s.ret.rid, !.at = Now]}]
  ELSE [s EXCEPT !.micro = Append(@, [t EXCEPT !.rid = 0, !.at = 0, !.hops = Hops(t),
                                               !.ok = (s.ret.how = "resolved")])]

\* `await` on a timer
Suspend(s, t) ==
  [s EXCEPT !.tasks = @ \cup {[t EXCEPT !.rid = 0, !.ok = TRUE, !.val = 0, !.at = Now]}]

\* ------------------------------------------------------ handleSocketConnect
HSC(pc) == Task("handleSocketConnect", pc, NULL)

flushLoopLifo(s) ==
  IF Len(s.commandQueue) = 0 THEN s
  ELSE LET command == s.commandQueue[Len(s.commandQueue)]
           rest == SubSeq(s.commandQueue, 1, Len(s.commandQueue) - 1)
       IN Await(sendCommand([s EXCEPT !.commandQueue = rest], command, FALSE),
                HSC("flush"))

\* while (queue.length > 0) { command = queue.shift(); await sendCommand(command).catch(...) }
flushLoop(s) ==
  IF Len(s.commandQueue) = 0 THEN s
  ELSE LET command == Head(s.commandQueue)
       IN Await(sendCommand([s EXCEPT !.commandQueue = Tail(@)], command, FALSE),
                HSC("flush"))

handleSocketConnect(s) ==
  Await(sendCommand([s EXCEPT !.isReady = TRUE],
                    Cmd("observe_property", "time-pos", "1"), TRUE), HSC("obs1"))

resumeSocketConnect(s, t) ==
  IF t.pc = "flush" THEN flushLoop(s)
  ELSE IF ~t.ok THEN s        \* the await throws: the handler ends, no flush
  ELSE IF t.pc = "obs1"
  THEN Await(sendCommand(s, Cmd("observe_property", "duration", "2"), TRUE), HSC("obs2"))
  ELSE IF t.pc = "obs2"
  THEN Await(sendCommand(s, Cmd("observe_property", "pause", "3"), TRUE), HSC("obs3"))
  ELSE flushLoop(s)

\* -------------------------------------------------- the public operations
applyLoopProperty(s) ==
  sendCommand(s, Cmd("set_property", "loop-file", IF s.loop THEN "inf" ELSE "no"), FALSE)

\* load() that leaves the pause property alone
loadTailUnpaused(s, url) ==
  LET s1 == IF ~s.mpvProcess THEN startMpvProcess(s) ELSE s
      s2 == sendCommand([s1 EXCEPT !.currentUrl = url, !.tally.intent = url],
                        Cmd("loadfile", url, "replace"), FALSE)
      s3 == sendCommand(s2, Cmd("set_property", "volume", "100"), FALSE)
  IN applyLoopProperty(s3)

\* load(url) from `if (!this.mpvProcess)` on
loadTail(s, url) ==
  LET s1 == IF ~s.mpvProcess THEN startMpvProcess(s) ELSE s
      s2 == sendCommand([s1 EXCEPT !.currentUrl = url, !.tally.intent = url],
                        Cmd("loadfile", url, "replace"), FALSE)
      s3 == sendCommand(s2, Cmd("set_property", "pause", "true"), FALSE)
  IN applyLoopProperty(s3)

\* play(url) from `if (!this.mpvProcess)` on
playTail(s, url) ==
  Let(IF ~s.mpvProcess THEN startMpvProcess(s) ELSE s, LAMBDA s1 :
  Let(sendCommand([s1 EXCEPT !.currentUrl = url, !.tally.intent = url,
                              !.tally.playTags = @ \cup {s1.issueCount + 1}],
                  Cmd("loadfile", url, "replace"), FALSE),
      LAMBDA s2 :
  applyLoopProperty(IF s2.ret.how = "pending"
                    THEN Await(s2, Task("play.then", "loadfile", url))
                    ELSE IF s2.ret.how = "resolved" THEN startWatchdog(s2)
                    ELSE emit(s2, Finished))))

resumePlayThen(s, t) == IF t.ok THEN startWatchdog(s) ELSE emit(s, Finished)

\* setLoop(enable) from `this.loop = enable` on
setLoopTail(s, enable) ==
  Let([called(s, "setLoop.tail", enable) EXCEPT !.loop = (enable = "true")], LAMBDA s1 :
  IF s1.currentUrl # NULL THEN applyLoopProperty(s1) ELSE s1)

PropertyOf(k) ==
  IF k = "seek" THEN "time-pos" ELSE IF k = "setVolume" THEN "volume" ELSE "speed"

healthCheckStart(s, t0) ==
  Let([t0 EXCEPT !.probe1 = NoProbe, !.probe2 = NoProbe, !.expired = FALSE], LAMBDA t :
  Let(sendCommand(s, Cmd("get_property", "volume", NULL), TRUE), LAMBDA s1 :
  IF s1.ret.how = "pending" THEN Await(s1, [t EXCEPT !.pc = "hc1", !.probe1 = s1.ret.rid])
  ELSE Suspend(s1, [t EXCEPT !.pc = "hcWait", !.probe1 = Unsent])))

\* A public operation up to its health check; k names the operation.
opStart(s, k, arg) ==
  Let(IF k \in {"load", "play"} THEN setState(called(s, k, arg), "Buffering")
      ELSE called(s, k, arg), LAMBDA s1 :
  IF s1.isRecovering THEN s1
  ELSE IF s1.mpvProcess THEN healthCheckStart(s1, Task(k, "hc1", arg))
  ELSE IF k = "load" THEN loadTail(s1, arg)
  ELSE IF k = "play" THEN playTail(s1, arg)
  ELSE IF k = "setLoop" THEN setLoopTail(s1, arg)
  ELSE sendCommand(s1, Cmd("set_property", PropertyOf(k), arg), FALSE))

\* What follows `await this.recover()` (or a passed health check) in the caller.
opTail(s, t) ==
  IF t.k = "load" THEN loadTail(s, t.arg)
  ELSE IF t.k = "play" THEN playTail(s, t.arg)
  ELSE IF t.k = "setLoop" THEN setLoopTail(s, t.arg)
  ELSE IF t.k = "watchdog"
  THEN IF t.arg # NULL
       THEN opStart(calledN(s, "watchdog.play", t.arg, t.sp), "play", t.arg)
       ELSE s
  ELSE sendCommand(s, Cmd("set_property", PropertyOf(t.k), t.arg), FALSE)

\* ---------------------------------------------------------------- recover
\* t.pc = "recRetry" marks the call made from recover()'s own catch block,
\* which is followed by that recovery's finally.
recoverReturn(s, t) ==
  IF t.pc = "recRetry" THEN opTail([s EXCEPT !.isRecovering = FALSE], t)
  ELSE opTail(s, t)

\* recover() past its guard, up to the 2 s settle delay
recoverBody(s, t) ==
  Suspend(stop([s EXCEPT !.isRecovering = TRUE,
                         !.tally.captured = [url |-> s.currentUrl,
                                             playing |-> s.lastKnownState = "Playing"]]),
          [t EXCEPT !.pc = "recSettle", !.rurl = s.currentUrl,
                    !.wasPlaying = (s.lastKnownState = "Playing")])

recoverAlways(s, t) == recoverBody(called(s, "recover", t.k), t)

recover(s, t) ==
  Let(called(s, "recover", t.k), LAMBDA s1 :
  IF s1.isRecovering THEN recoverReturn(called(s1, "recover.return", t.k), t)
  ELSE recoverBody(s1, t))

\* recover(): the catch block up to its 3 s wait
recoverCatch(s, t) == Suspend(emit(s, ErrorNote), [t EXCEPT !.pc = "recRetry"])

recoverLoadedResumes(s, t) ==
  Let(sendCommand([s EXCEPT !.currentUrl = t.rurl],
                  Cmd("loadfile", t.rurl, "replace"), FALSE), LAMBDA s1 :
  opTail([s1 EXCEPT !.isRecovering = FALSE,
                    !.timers = @ \cup {[t |-> "unpause", n |-> 0,
                                        e |-> s1.spawnCount, at |-> Now]}], t))

\* recover(): after the readiness wait, through finally
recoverLoaded(s, t) ==
  Let(sendCommand([s EXCEPT !.currentUrl = t.rurl],
                  Cmd("loadfile", t.rurl, "replace"), FALSE), LAMBDA s1 :
  opTail([s1 EXCEPT !.isRecovering = FALSE,
                    !.timers = IF t.wasPlaying
                               THEN @ \cup {[t |-> "unpause", n |-> 0,
                                             e |-> s1.spawnCount, at |-> Now]}
                               ELSE @], t))

\* checkReady
checkReady(s0, t) ==
  Let(called(s0, "checkReady", t.k), LAMBDA s :
  IF s.isReady THEN recoverLoaded(s, t)
  ELSE IF ~s.mpvProcess THEN recoverCatch(s, t)
  ELSE Suspend([s EXCEPT !.tally.polls = @ + 1], [t EXCEPT !.pc = "recReady"]))

\* recover(): after the 2 s settle delay
recoverSettled(s, t) ==
  IF t.rurl # NULL THEN checkReady(startMpvProcess(s), t)
  ELSE opTail([s EXCEPT !.isRecovering = FALSE], t)

\* healthCheck() returns to `if (this.mpvProcess && !(await this.healthCheck()))
\* await this.recover()`; the probes it made and its result are recorded.
healthChecked(s, t, healthy) ==
  Let(calledN(calledN(calledN(s, "healthCheck.primary",
                              IF t.expired THEN "timeout" ELSE "raced", t.probe1),
                      "healthCheck.retry", t.k, t.probe2),
              "healthCheck.return", t.k, IF healthy THEN 1 ELSE 0), LAMBDA s1 :
  IF healthy THEN opTail(s1, t) ELSE recover(s1, t))

healthCheckGivesUp(s, t) == healthChecked(s, t, FALSE)

\* healthCheck(): after the 1 s backoff, the retry probe
healthCheckRetry(s, t) ==
  Let(sendCommand(s, Cmd("get_property", "volume", NULL), TRUE), LAMBDA s1 :
  IF s1.ret.how = "pending" THEN Await(s1, [t EXCEPT !.pc = "hc2", !.probe2 = s1.ret.rid])
  ELSE healthChecked(s1, [t EXCEPT !.probe2 = Unsent], FALSE))

\* -------------------------------------------------------------- togglePause
togglePause(s0) ==
  Let(called(s0, "togglePause", NULL), LAMBDA s :
  IF s.isRecovering THEN s
  ELSE Let(sendCommand(s, Cmd("get_property", "pause", NULL), TRUE), LAMBDA s1 :
       IF s1.ret.how = "pending"
       THEN Await(s1, Task("togglePause", "get", NULL))
       ELSE s1))

resumeTogglePause(s, t) ==
  IF ~t.ok THEN s
  ELSE Let(t.val = 1, LAMBDA isPaused :
       Let(setState(s, IF isPaused THEN "Playing" ELSE "Paused"), LAMBDA s1 :
       sendCommand(IF isPaused THEN startWatchdog(s1) ELSE stopWatchdog(s1),
                   Cmd("cycle", "pause", NULL), FALSE)))

\* ------------------------------------------------------------ stall watchdog
watchdogRecover(s, t) ==
  recover(s, [t EXCEPT !.arg = s.currentUrl, !.sp = s.spawnCount])

safeHealthCheck(s, t) ==
  Let(sendCommand(s, Cmd("get_property", "volume", NULL), TRUE), LAMBDA s1 :
  IF s1.ret.how = "pending" THEN Await(s1, [t EXCEPT !.pc = "shc"])
  ELSE watchdogRecover(s1, t))

\* one tick of the setInterval callback, past its first guard
watchdogTick(s) ==
  Let(sendCommand(s, Cmd("get_property", "time-pos", NULL), TRUE), LAMBDA s1 :
  IF s1.ret.how = "pending"
  THEN Await(s1, Task("watchdog", "poll", NULL))
  ELSE safeHealthCheck(s1, Task("watchdog", "poll", NULL)))

\* ------------------------------------------------------ promise continuations
resume(s, t) ==
  IF t.k = "handleSocketConnect" THEN resumeSocketConnect(s, t)
  ELSE IF t.k = "play.then" THEN resumePlayThen(s, t)
  ELSE IF t.k = "togglePause" THEN resumeTogglePause(s, t)
  ELSE IF t.pc = "hc1"
  THEN IF t.ok THEN healthChecked(s, t, TRUE) ELSE Suspend(s, [t EXCEPT !.pc = "hcWait"])
  ELSE IF t.pc = "hc2"
  THEN healthChecked(s, t, t.ok)
  ELSE IF t.pc = "poll"
  THEN IF t.ok /\ t.val >= 0 THEN s ELSE safeHealthCheck(s, t)
  ELSE IF t.pc = "shc"
  THEN IF t.ok THEN s ELSE watchdogRecover(s, t)
  ELSE s


\* ------------------------------------------------------------ socket events
\* the connect() timer callback
connectTimerFired(s, tm) ==
  LET s1 == [s EXCEPT !.timers = @ \ {tm}]
  IN IF ~s1.mpvProcess THEN s1
     ELSE [s1 EXCEPT !.socket = "connecting", !.socketRetry = tm.n,
                     !.tally.chain = tm.e, !.tally.dials = Append(@, tm.e),
                     !.tally.strays = IF s1.socket = "connecting"
                                      THEN @ \cup {[n |-> s1.socketRetry, e |-> s1.tally.chain]}
                                      ELSE @]

handleSocketErrorNoLimit(s, retryCount) ==
  [s EXCEPT !.timers = @ \cup {[t |-> "retry", n |-> retryCount, e |-> s.tally.chain,
                                at |-> Now]}]

handleSocketError(s, retryCount) ==
  IF retryCount > MAX_SOCKET_RETRIES THEN emit(s, ErrorNote)
  ELSE [s EXCEPT !.timers = @ \cup {[t |-> "retry", n |-> retryCount,
                                     e |-> s.tally.chain, at |-> Now]}]

\* the backoff timer handleSocketError arms
retryTimerFired(s, tm) ==
  LET s1 == [s EXCEPT !.timers = @ \ {tm}]
  IN IF s1.mpvProcess
     THEN [connect([s1 EXCEPT !.tally.chain = tm.e], tm.n + 1) EXCEPT
             !.tally.chain = s.tally.chain]
     ELSE s1

handleSocketClose(s) ==
  [s EXCEPT !.isReady = FALSE, !.socket = NULL, !.wire = << >>, !.inbound = << >>]

\* the timer recover() arms to unpause after the reload
unpauseTimerFired(s, tm) ==
  sendCommand([s EXCEPT !.timers = @ \ {tm}], Cmd("set_property", "pause", "false"), FALSE)

handleProcessError(s) ==
  Let(emit(s, ErrorNote), LAMBDA s1 :
  stop(IF s1.re THEN stop([s1 EXCEPT !.re = FALSE]) ELSE s1))

\* ---------------------------------------------------------------- the engine
\* mpv's side of the JSON IPC protocol, for the verbs the controller uses:
\* the messages the engine sends for one request, and its state afterwards.
EngineAfter(e, cmd) ==
  IF cmd.v = "observe_property" THEN [e EXCEPT !.observed = @ \cup {cmd.p}]
  ELSE IF cmd.v = "loadfile" THEN [e EXCEPT !.file = "loading"]
  ELSE IF cmd.v = "set_property" /\ cmd.p = "pause" THEN [e EXCEPT !.pause = (cmd.a = "true")]
  ELSE IF cmd.v = "cycle" THEN [e EXCEPT !.pause = ~@]
  ELSE e

PauseChange(e, e2) ==
  IF "pause" \in e2.observed /\ (e.pause # e2.pause \/ "pause" \notin e.observed)
  THEN << Message("property-change", "pause", IF e2.pause THEN 1 ELSE 0, NULL) >>
  ELSE << >>

EngineMessages(e, id, cmd) ==
  LET e2 == EngineAfter(e, cmd)
  IN IF cmd.v = "get_property"
     THEN IF cmd.p = "pause" THEN << Reply(id, "success", IF e.pause THEN 1 ELSE 0) >>
          ELSE IF cmd.p = "time-pos"
          THEN IF e.file = "loaded" THEN << Reply(id, "success", 1) >>
               ELSE << Reply(id, "property unavailable", -1) >>
          ELSE << Reply(id, "success", 100) >>
     ELSE IF cmd.v = "set_property" /\ cmd.p = "time-pos" /\ e.file # "loaded"
     THEN << Reply(id, "property unavailable", -1) >>
     ELSE IF cmd.v = "loadfile"
     THEN << Reply(id, "success", -1), Message("start-file", NULL, -1, NULL) >>
     ELSE << Reply(id, "success", -1) >> \o PauseChange(e, e2)

EngineUp(s) == s.engine.alive /\ ~s.engine.hung /\ s.socket = "open"

\* A reply to request id is on its way.
Answerable(s, id) ==
  /\ EngineUp(s)
  /\ \/ \E i \in DOMAIN s.wire : s.wire[i].id = id
     \/ \E i \in DOMAIN s.inbound : s.inbound[i].request_id = id

curEnv(tl, re, a, arg) == [cur EXCEPT !.tl = tl, !.re = re, !.last = Last(a, NoMsg, arg)]
curL(a, arg) == curEnv(FALSE, FALSE, a, arg)


\* ===================================================================== Init
Feed(text) ==
  [stream |-> text, arrived |-> << >>, dispatched |-> << >>, got |-> 0, bad |-> 0]

Fresh ==
  /\ mpvProcess = FALSE /\ socket = NULL /\ socketRetry = 0 /\ isReady = FALSE
  /\ commandQueue = << >> /\ commandCallbacks = {} /\ requestIdCounter = 1
  /\ lastProgress = [currentTime |-> 0, duration |-> 0]
  /\ currentUrl = NULL /\ loop = FALSE /\ isStopping = FALSE
  /\ watchdogTimer = FALSE /\ fileLoadTimeout = FALSE /\ isRecovering = FALSE
  /\ lastKnownState = "None"
  /\ engine = DeadEngine(FreshEngine)
  /\ wire = << >> /\ inbound = << >>
  /\ promise = [i \in ReqIds |-> "unused"]
  /\ reqTimers = {} /\ tasks = {} /\ micro = << >> /\ timers = {}
  /\ armedAt = [watchdog |-> 0, fileLoad |-> 0, req |-> [i \in ReqIds |-> 0]]
  /\ opLog = << >>
  /\ emitted = << >> /\ written = << >> /\ issueCount = 0
  /\ queuedTags = {} /\ clearedTags = {}
  /\ opCount = 0 /\ faults = 0 /\ events = 0 /\ spawnCount = 0
  /\ killAttempts = 0 /\ orphans = 0 /\ addresses = << >>
  /\ tally = [finished |-> 0, errors |-> 0, playTags |-> {}, unsent |-> {},
              intent |-> NULL, dials |-> << >>, chain |-> 0, issued |-> << >>,
              captured |-> [url |-> NULL, playing |-> FALSE], polls |-> 0,
              strays |-> {}]
  /\ settled = [i \in ReqIds |-> 0]
  /\ buffer = << >>
  /\ last = Last("init", NoMsg, NULL)

\* In the specifications of the whole controller the engine's messages arrive
\* one complete line at a time.
Start == Fresh /\ feed = Feed(<< >>)

Init == budget \in Budgets /\ platform \in {"win32", "posix"} /\ Start

\* The event loop takes its next task when the microtask queue is empty.  The
\* engine executes a request as soon as it is written (only the delivery of
\* its messages is asynchronous), which loses no order of messages and steps
\* the controller can observe.
Idle == micro = << >> /\ ~(EngineUp(cur) /\ wire # << >>)

\* Every timer of the controller is 100 ms or longer; a message crosses the
\* local socket, and a connection attempt to a live engine ends, far faster:
\* a timer callback runs when no message and no connection is in flight.
TimerDue ==
  /\ Idle
  /\ ~(socket = "open" /\ inbound # << >>)
  /\ ~(socket = "connecting" /\ engine.alive /\ ~engine.hung)
CanOp == Idle /\ opCount < budget.ops
op(s) ==
  [s EXCEPT !.opCount = @ + 1,
            !.opLog = Append(@, [f |-> s.last.a, arg |-> s.last.arg,
                                   proc |-> mpvProcess, socket |-> socket])]

\* ================================================================== actions
\* ---- public methods
Load == \E url \in Urls : CanOp /\ Commit(op(opStart(curL("load", url), "load", url)))
Play == \E url \in Urls : CanOp /\ Commit(op(opStart(curL("play", url), "play", url)))
TogglePause == CanOp /\ Commit(op(togglePause(curL("togglePause", NULL))))
Seek == CanOp /\ Commit(op(opStart(curL("seek", "5"), "seek", "5")))
SetVolume == CanOp /\ Commit(op(opStart(curL("setVolume", "50"), "setVolume", "50")))
SetSpeed == CanOp /\ Commit(op(opStart(curL("setSpeed", "2"), "setSpeed", "2")))
SetLoop ==
  \E enable \in {"true", "false"} :
    CanOp /\ Commit(op(opStart(curL("setLoop", enable), "setLoop", enable)))
Stop ==
  \E re \in BOOLEAN :
    CanOp /\ Commit(op(stop(curEnv(FALSE, re, "stop", NULL))))

\* ---- promise continuations (microtasks), first in first out
RunMicro ==
  \E re \in BOOLEAN :
    /\ micro # << >>
    /\ Commit(IF Head(micro).hops > 0
              THEN [curL("reaction", Head(micro).k) EXCEPT
                      !.micro = Append(Tail(@), [Head(micro) EXCEPT !.hops = @ - 1])]
              ELSE resume([curEnv(FALSE, re, "resume", Head(micro).k) EXCEPT
                             !.micro = Tail(@)],
                          Head(micro)))

\* ---- timers
RequestTimeout ==
  \E id \in reqTimers :
    /\ TimerDue /\ CanFire(cur, armedAt.req[id], RequestDur)
    /\ \A j \in reqTimers : id <= j
    /\ Commit(requestTimeout(curL("requestTimeout", NULL), id))

ConnectTimer ==
  \E tm \in timers :
    /\ TimerDue /\ tm.t = "connect" /\ CanFire(cur, tm.at, TimerDur(tm))
    /\ Commit(connectTimerFired(curL("connectTimer", NULL), tm))

RetryTimer ==
  \E tm \in timers :
    /\ TimerDue /\ tm.t = "retry" /\ CanFire(cur, tm.at, TimerDur(tm))
    /\ Commit(retryTimerFired(curL("retryTimer", NULL), tm))

UnpauseTimer ==
  \E tm \in timers :
    /\ TimerDue /\ tm.t = "unpause" /\ CanFire(cur, tm.at, TimerDur(tm))
    /\ Commit(unpauseTimerFired(curL("unpauseTimer", NULL), tm))

FileLoadTimer ==
  /\ TimerDue /\ fileLoadTimeout /\ events < budget.events
  /\ CanFire(cur, armedAt.fileLoad, FileLoadDur)
  /\ Commit(fileLoadTimeoutFired([curL("fileLoadTimer", NULL) EXCEPT !.events = @ + 1]))

\* A tick takes at most 15 s + 3 s before it returns or enters recover(), whose
\* stop() clears the 30 s interval: a tick does not overlap the previous one
\* unless that one is inside recover().
WatchdogTimer ==
  /\ TimerDue /\ TickRuns(cur)
  /\ ~\E t \in tasks : t.k = "watchdog" /\ t.pc \in {"poll", "shc"}
  /\ CanFire(cur, armedAt.watchdog, WatchdogDur)
  /\ Commit(watchdogTick([curL("watchdogTick", NULL) EXCEPT !.armedAt.watchdog = Now]))

\* the 5 s (healthCheck) and 3 s (safeHealthCheck) timers that race a probe
RaceTimer ==
  \E t \in tasks, re \in BOOLEAN :
    /\ TimerDue /\ t.pc \in {"hc1", "shc"} /\ CanFire(cur, t.at, TaskDur(t.pc))
    /\ LET s == [curEnv(FALSE, re, "raceTimer", t.k) EXCEPT !.tasks = @ \ {t}]
       IN Commit(IF t.pc = "hc1" THEN Suspend(s, [t EXCEPT !.pc = "hcWait", !.expired = TRUE])
                 ELSE watchdogRecover(s, t))

\* the timers an async function sleeps on: healthCheck's 1 s backoff,
\* recover()'s 2 s settle delay, its 100 ms readiness poll and its 3 s retry wait
SleepTimer ==
  \E t \in tasks, re \in BOOLEAN :
    /\ TimerDue /\ t.pc \in {"hcWait", "recSettle", "recReady", "recRetry"}
    /\ IF t.pc = "recReady" THEN isReady \/ ~mpvProcess
       ELSE CanFire(cur, t.at, TaskDur(t.pc))
    /\ LET s == [curEnv(FALSE, re, "sleepTimer", t.pc) EXCEPT
                  !.tasks = @ \ {t},
                  !.tally.polls = IF t.pc = "recReady" THEN @ - 1 ELSE @]
       IN Commit(IF t.pc = "hcWait" THEN healthCheckRetry(s, t)
                 ELSE IF t.pc = "recSettle" THEN recoverSettled(s, t)
                 ELSE IF t.pc = "recReady" THEN checkReady(s, t)
                 ELSE recover(s, t))

\* recover()'s 15 s startup timeout
StartupTimeout ==
  \E t \in tasks :
    /\ TimerDue /\ t.pc = "recReady" /\ ~isReady /\ mpvProcess
    /\ CanFire(cur, t.at, TaskDur(t.pc))
    /\ Commit(recoverCatch([curL("startupTimeout", NULL) EXCEPT !.tasks = @ \ {t}], t))

\* A checkReady loop whose startup timeout has fired: the 100 ms timer keeps
\* rearming itself while the session is not ready and the process is there
\* (a step that changes nothing); this is its last run.
Waiting == Cardinality({ t \in tasks : t.pc = "recReady" })

checkReadySettled(s) ==
  [called(s, "checkReady", NULL) EXCEPT !.tally.polls = @ - 1]

PollTimer ==
  /\ TimerDue /\ tally.polls > Waiting /\ (isReady \/ ~mpvProcess)
  /\ Commit(checkReadySettled(curL("pollTimer", NULL)))

\* ---- the socket
SocketConnected ==
  /\ Idle /\ socket = "connecting" /\ engine.alive /\ ~engine.hung
  /\ Commit(handleSocketConnect([curL("socketConnect", NULL) EXCEPT !.socket = "open"]))

\* a connection attempt fails: 'error', then 'close'
SocketError ==
  /\ Idle /\ socket = "connecting" /\ faults < budget.faults
  /\ LET s == [curL("socketError", NULL) EXCEPT !.faults = @ + 1]
     IN Commit(handleSocketClose(handleSocketError(s, socketRetry)))

\* the engine is gone: the open socket closes
SocketClosed ==
  /\ Idle /\ socket = "open" /\ ~engine.alive
  /\ Commit(handleSocketClose(curL("socketClose", NULL)))

\* one line arrives on the socket
SocketData ==
  /\ ~(EngineUp(cur) /\ wire # << >>)
  /\ socket = "open" /\ inbound # << >>
  /\ Commit(handleMpvMessage([cur EXCEPT !.inbound = Tail(@),
                                         !.last = Last("socketData", Head(inbound), NULL)],
                             Head(inbound)))

ProcessError ==
  \E tl \in BOOLEAN, re \in BOOLEAN :
    /\ Idle /\ mpvProcess /\ engine.alive /\ socket = NULL /\ faults < budget.faults
    /\ tl => platform = "win32"
    /\ Commit(handleProcessError(
         [curEnv(tl, re, "processError", NULL) EXCEPT
            !.engine = DeadEngine(@), !.faults = @ + 1]))

\* ---- the engine process
EngineExec ==
  /\ micro = << >> /\ EngineUp(cur) /\ wire # << >>
  /\ LET rq == Head(wire)
     IN Commit([curL("engine", NULL) EXCEPT
                  !.wire = Tail(@),
                  !.engine = EngineAfter(@, rq.cmd),
                  !.inbound = @ \o EngineMessages(engine, rq.id, rq.cmd)])

\* the engine answers a request with an error and does nothing
EngineRefuses ==
  /\ micro = << >> /\ EngineUp(cur) /\ wire # << >> /\ faults < budget.faults
  /\ Commit([curL("engine", NULL) EXCEPT
               !.wire = Tail(@), !.faults = @ + 1,
               !.inbound = Append(@, Reply(Head(wire).id, "error", -1))])

EngineEvent ==
  \E m \in { Message("file-loaded", NULL, -1, NULL),
             Message("end-file", NULL, -1, "error"),
             Message("end-file", NULL, -1, "eof"),
             Message("property-change", "duration", 0, NULL),
             Message("property-change", "duration", 3, NULL),
             Message("property-change", "time-pos", 1, NULL),
             Message("property-change", "time-pos", 2, NULL) } :
    /\ Idle /\ EngineUp(cur) /\ events < budget.events
    /\ m.event = "file-loaded" => engine.file = "loading"
    /\ (m.event = "end-file" /\ m.reason = "error") => engine.file = "loading"
    /\ (m.event = "end-file" /\ m.reason = "eof") => (engine.file = "loaded" /\ ~engine.pause)
    /\ m.event = "property-change" => (engine.file = "loaded" /\ m.name \in engine.observed)
    /\ Commit([curL("engine", NULL) EXCEPT
                 !.events = @ + 1,
                 !.inbound = Append(@, m),
                 !.engine.file = IF m.event = "file-loaded" THEN "loaded"
                                 ELSE IF m.event = "end-file" THEN "idle" ELSE @])

EngineHangs ==
  /\ Idle /\ engine.alive /\ ~engine.hung /\ faults < budget.faults
  /\ Commit([curL("engine", NULL) EXCEPT !.engine.hung = TRUE, !.faults = @ + 1])

EngineDies ==
  /\ Idle /\ engine.alive /\ mpvProcess /\ faults < budget.faults
  /\ Commit([curL("engine", NULL) EXCEPT !.engine = DeadEngine(@), !.faults = @ + 1])

Next ==
  \/ Load \/ Play \/ TogglePause \/ Seek \/ SetLoop \/ Stop
  \/ RunMicro
  \/ RequestTimeout \/ ConnectTimer \/ RetryTimer \/ UnpauseTimer \/ FileLoadTimer
  \/ WatchdogTimer \/ RaceTimer \/ SleepTimer
  \/ SocketConnected \/ SocketError \/ SocketClosed \/ SocketData \/ ProcessError
  \/ EngineExec \/ EngineRefuses \/ EngineEvent \/ EngineHangs \/ EngineDies

Spec == Init /\ [][Next]_vars

\* Runs of play and seek against an engine that hangs or fails to come up:
\* the health checks, the stall watchdog and recover().  No step of these runs
\* reads the platform.
InitRecovery == budget \in RecoveryBudgets /\ platform = "posix" /\ Start

NextRecovery ==
  \/ Play \/ Seek
  \/ RunMicro
  \/ RequestTimeout \/ ConnectTimer \/ RetryTimer \/ UnpauseTimer
  \/ WatchdogTimer \/ RaceTimer \/ SleepTimer \/ StartupTimeout \/ PollTimer
  \/ SocketConnected \/ SocketError \/ SocketData
  \/ EngineExec \/ EngineEvent \/ EngineHangs

SpecRecovery == InitRecovery /\ [][NextRecovery]_vars

\* Runs of play and setLoop against engines that hang: a recovery that fails
\* and what it leaves behind.
LoopBudgets == { Budget(MaxOps, MaxFaults + 1, 0, MaxReq) }

InitLoop == budget \in LoopBudgets /\ platform = "posix" /\ Start

NextLoop ==
  \/ Play \/ SetLoop
  \/ RunMicro
  \/ RequestTimeout \/ ConnectTimer
  \/ WatchdogTimer \/ RaceTimer \/ SleepTimer \/ StartupTimeout
  \/ SocketConnected \/ SocketData
  \/ EngineExec \/ EngineHangs

SpecLoop == InitLoop /\ [][NextLoop]_vars

\* Runs of play against engines that die: a recovery whose new session is
\* lost while the queue is flushed.
StarveBudgets == { Budget(MaxOps, MaxFaults + 1, 0, MaxReq - 6) }

InitStarve == budget \in StarveBudgets /\ platform = "posix" /\ Start

NextStarve ==
  \/ Play
  \/ RunMicro
  \/ RequestTimeout \/ ConnectTimer
  \/ WatchdogTimer \/ RaceTimer \/ SleepTimer \/ StartupTimeout
  \/ SocketConnected \/ SocketClosed \/ SocketData
  \/ EngineExec \/ EngineDies

SpecStarve == InitStarve /\ [][NextStarve]_vars

\* Runs of play and stop against engines that never open their socket: every
\* connection attempt fails.  No promise is settled while a function awaits
\* it and the stall watchdog's tick returns at once (isReady is never set), so
\* these runs have no microtask and no watchdog step.
ConnectBudgets == { Budget(MaxOps, 0, 0, MaxReq) }
InitConnect == budget \in ConnectBudgets /\ platform = "posix" /\ Start

ConnectFails ==
  /\ Idle /\ socket = "connecting"
  /\ Commit(handleSocketClose(handleSocketError(curL("connectFails", NULL), socketRetry)))

NextConnect ==
  \/ Play \/ Stop
  \/ RequestTimeout \/ ConnectTimer \/ RetryTimer
  \/ RaceTimer \/ SleepTimer \/ StartupTimeout
  \/ ConnectFails

SpecConnect == InitConnect /\ [][NextConnect]_vars

\* Runs of play against an engine whose socket a connection attempt may or
\* may not reach, with two chains of attempts alive at once (stop() cancels
\* neither the connect timer nor the backoff timer).  Two connect timers that
\* expire together run back to back, before either attempt has ended; the
\* attempt `this.socket` no longer refers to keeps its handlers, and the model
\* follows it to its 'connect' once `this.socket` is null.  Such a coincidence
\* counts against the run's faults; every attempt `this.socket` refers to fails.
StrayBudgets == { Budget(MaxOps, MaxFaults, 0, MaxReq - 6) }
InitStray == budget \in StrayBudgets /\ platform = "posix" /\ Start

ConnectTimerTogether ==
  \E tm \in timers :
    /\ Idle /\ last.a = "connectTimer" /\ socket = "connecting"
    /\ faults < budget.faults
    /\ tm.t = "connect" /\ CanFire(cur, tm.at, TimerDur(tm))
    /\ Commit(connectTimerFired([curL("connectTimerTogether", NULL) EXCEPT
                                   !.faults = @ + 1], tm))

\* 'connect' on a socket this.socket does not refer to
StrayConnects ==
  \E x \in tally.strays :
    /\ Idle /\ socket = NULL /\ mpvProcess /\ engine.alive /\ ~engine.hung
    /\ Commit(handleSocketConnect([curL("strayConnects", NULL) EXCEPT
                                     !.tally.strays = @ \ {x}]))

NextStray ==
  \/ Play
  \/ RunMicro
  \/ ConnectTimer \/ ConnectTimerTogether \/ RetryTimer
  \/ RaceTimer \/ SleepTimer \/ StartupTimeout
  \/ ConnectFails \/ StrayConnects

SpecStray == InitStray /\ [][NextStray]_vars

\* Runs of load and togglePause against an engine that may refuse a command.
\* The engine answers every request, so no request or race timer expires.
ToggleBudgets == { Budget(MaxOps, MaxFaults, 0, MaxReq) }
InitToggle == budget \in ToggleBudgets /\ platform = "posix" /\ Start

NextToggle ==
  \/ Load \/ TogglePause
  \/ RunMicro
  \/ ConnectTimer \/ WatchdogTimer \/ SleepTimer
  \/ SocketConnected \/ SocketData
  \/ EngineExec \/ EngineRefuses

SpecToggle == InitToggle /\ [][NextToggle]_vars

\* Runs of one play against an engine that dies or hangs.  The event loop
\* runs every callback that is due and a live engine answers, so the steps of
\* the controller, the timers, the socket and the engine's answers are taken
\* when they stay enabled; the caller, the faults and the engine's
\* spontaneous events are not.
StallBudgets == { Budget(MaxOps - 1, MaxFaults, MaxEvents - 1, MaxReq) }
InitStall == budget \in StallBudgets /\ platform = "posix" /\ Start

Scheduled ==
  \/ RunMicro
  \/ RequestTimeout \/ ConnectTimer \/ UnpauseTimer \/ FileLoadTimer
  \/ WatchdogTimer \/ RaceTimer \/ SleepTimer
  \/ SocketConnected \/ SocketClosed \/ SocketData
  \/ EngineExec

NextStall == Play \/ Scheduled \/ EngineEvent \/ EngineHangs \/ EngineDies

SpecStall == InitStall /\ [][NextStall]_vars /\ WF_vars(Scheduled)

\* Runs of play, seek and togglePause against an engine that answers every
\* request: no timer but connect()'s expires before its reply arrives.
OrderBudgets == { Budget(MaxOps + 1, 0, 0, MaxReq) }
InitOrder == budget \in OrderBudgets /\ platform = "posix" /\ Start

NextOrder ==
  \/ Play \/ Seek \/ TogglePause
  \/ RunMicro
  \/ ConnectTimer \/ WatchdogTimer
  \/ SocketConnected \/ SocketData
  \/ EngineExec

SpecOrder == InitOrder /\ [][NextOrder]_vars

\* ------------------------------------------------------------------ the framer
\* The socket delivers a text of up to MaxLines lines, each ended by a newline,
\* in chunks of any size, to a controller that has just been constructed.
TextLines ==
  { << >>, <<"{", "s", "}">>, <<"{", "f", "}">>, <<"{", "p", "}">>,
    <<"{", "s">>, <<"}">> }

RECURSIVE StreamsOf(_)
StreamsOf(n) ==
  IF n = 0 THEN { << >> }
  ELSE LET shorter == StreamsOf(n - 1)
       IN shorter \cup { st \o l \o << Newline >> : st \in shorter, l \in TextLines }

InitFramer ==
  /\ budget = Budget(0, 0, 0, 0) /\ platform = "posix" /\ Fresh
  /\ \E text \in StreamsOf(MaxLines) : feed = Feed(text)

SocketChunk ==
  \E k \in 1..Len(feed.stream) :
    Commit(handleSocketData([curL("socketChunk", NULL) EXCEPT
                               !.feed.stream = slice(@, k + 1),
                               !.feed.arrived = @ \o SubSeq(feed.stream, 1, k)],
                            SubSeq(feed.stream, 1, k)))

NextFramer == SocketChunk

SpecFramer == InitFramer /\ [][NextFramer]_vars

\* =================================================================== claims
Calls == last.calls
QueuedWritten == { i \in DOMAIN written : written[i] \in queuedTags }

\* C1 - The commands that were put on the outgoing queue are written in the
\* order they were issued and none is written twice: the written queued tags
\* increase strictly, a written command is no longer on the queue, a queued
\* command is in flight only on a session that has connected, and a queued
\* command leaves the queue only by being written or by stop() clearing it.
C1_QueuedWrittenInOrderOnce ==
  /\ \A i, j \in QueuedWritten : i < j => written[i] < written[j]
  /\ \A k \in DOMAIN commandQueue : \A i \in QueuedWritten : written[i] # commandQueue[k].n
  /\ \A i \in DOMAIN wire : wire[i].cmd.n \in queuedTags => isReady
  /\ queuedTags = QueueTags(commandQueue) \cup { written[i] : i \in QueuedWritten }
                    \cup clearedTags

\* C1 witness: two commands that had been queued have been written.
C1_Witness == \E i, j \in QueuedWritten : i < j

\* C2 - A command written to the socket never overtakes a command that is
\* still on the queue: every written non-internal command was issued before
\* every command the queue still holds.
C2_NoOvertaking ==
  \A i \in DOMAIN written : \A k \in DOMAIN commandQueue :
    written[i] # 0 => written[i] < commandQueue[k].n

\* C3 - Every allocated request id is settled exactly once: no promise is
\* settled twice, and a promise that is still pending has its entry in the
\* pending map, without which neither a reply nor the timeout settles it.
C3_SettledExactlyOnce ==
  \A id \in ReqIds :
    /\ settled[id] <= 1
    /\ promise[id] = "pending" => id \in commandCallbacks

\* C4 - A stop() that finds the stopping guard set returns having changed
\* nothing, and the engine process of a session is killed at most once.
C4_ReentrantStopIsNoOp ==
  /\ killAttempts <= 1
  /\ \A i \in DOMAIN Calls :
       (Calls[i].f = "stop" /\ Calls[i].stopping) =>
         /\ i + 1 \in DOMAIN Calls
         /\ Calls[i + 1] = [Calls[i] EXCEPT !.f = "stop.return"]

\* C4 witness: a listener called stop() during the emit of a stop() that
\* killed the process.
C4_Witness ==
  \E i \in DOMAIN Calls :
    /\ i + 1 \in DOMAIN Calls
    /\ Calls[i].f = "stop" /\ ~Calls[i].stopping /\ Calls[i].proc
    /\ Calls[i + 1].f = "stop" /\ Calls[i + 1].stopping
    /\ killAttempts = 1

\* The return at position j of the calls is that of a stop() that found the
\* guard set.
NoOpReturn(j) == j > 1 /\ Calls[j - 1].f = "stop" /\ Calls[j - 1].stopping

\* C5 - Every stop() that is not a re-entrant no-op returns with
\* state-change(None) as the last notification emitted, the session not
\* ready, the pending map and the queue empty and no process handle.
C5_StopEndsIdle ==
  \A j \in DOMAIN Calls :
    (Calls[j].f = "stop.return" /\ ~NoOpReturn(j)) =>
      /\ Calls[j].e >= 1 /\ emitted[Calls[j].e] = StateChange("None")
      /\ ~Calls[j].ready /\ Calls[j].cb = 0 /\ Calls[j].q = 0 /\ ~Calls[j].proc

\* The async functions that are inside recover().
Recovering == { t \in tasks : t.pc \in {"recSettle", "recReady", "recRetry"} }

\* C6 - At most one recovery is active; a recover() call that finds a recovery
\* in progress returns having changed nothing (no teardown, no spawn); and
\* when the stall watchdog reissues play after the recovery it started, the
\* play is for the URL that was current when the checks failed and exactly
\* one process has been spawned since.
C6_OneRecoveryAtATime ==
  /\ Cardinality(Recovering) <= 1
  /\ \A i \in DOMAIN Calls :
       (Calls[i].f = "recover" /\ Calls[i].rec) =>
         /\ i + 1 \in DOMAIN Calls
         /\ Calls[i + 1] = [Calls[i] EXCEPT !.f = "recover.return"]
  /\ \A i \in DOMAIN Calls :
       Calls[i].f = "watchdog.play" =>
         /\ Calls[i].spawns = Calls[i].n + 1
         /\ i + 1 \in DOMAIN Calls
         /\ Calls[i + 1].f = "play" /\ Calls[i + 1].arg = Calls[i].arg

\* C6 witness: the watchdog reissues play after a recovery that restarted
\* the engine.
C6_Witness ==
  \E i \in DOMAIN Calls : Calls[i].f = "watchdog.play" /\ Calls[i].spawns = 2

\* C6 witness of the guard: recover() is called while a recovery is active.
C6_GuardReached == \E i \in DOMAIN Calls : Calls[i].f = "recover" /\ Calls[i].rec

\* The last step handled this kind of message from the socket.
Handled(event) == last.a = "socketData" /\ last.msg.event = event

\* C7 - The step that handles an end-file event with reason eof or error
\* leaves the stall watchdog and the file-load watchdog cancelled and the
\* progress snapshot {0,0}, and emits state-change(None) and then finished,
\* and nothing else.
C7_EndFileResets ==
  (Handled("end-file") /\ last.msg.reason \in {"eof", "error"}) =>
    /\ ~watchdogTimer /\ ~fileLoadTimeout
    /\ lastProgress = [currentTime |-> 0, duration |-> 0]
    /\ emitted = << StateChange("None"), Finished >>

\* C7 witness: end-file (eof) was handled while the stall watchdog was armed
\* and a duration was stored.
C7_Witness ==
  /\ Handled("end-file") /\ last.msg.reason = "eof"
  /\ \E i \in DOMAIN Calls : Calls[i].f = "end-file" /\ Calls[i].wd
  /\ emitted = << StateChange("None"), Finished >>

\* C8 - The step that handles a duration property-change emits nothing; the
\* step that handles a position property-change emits exactly one
\* progress-update, with that position and the stored duration, when the
\* stored duration is above 0, and emits nothing when it is 0.
C8_ProgressNeedsDuration ==
  (Handled("property-change") /\ last.msg.name \in {"duration", "time-pos"}) =>
    IF last.msg.name = "time-pos" /\ lastProgress.duration > 0
    THEN /\ emitted = << ProgressUpdate(last.msg.data, lastProgress.duration) >>
         /\ lastProgress.currentTime = last.msg.data
    ELSE emitted = << >>

\* C8 witness: a position arrived after a duration above 0 had been stored.
C8_Witness ==
  /\ Handled("property-change") /\ last.msg.name = "time-pos"
  /\ lastProgress.duration > 0
  /\ emitted = << ProgressUpdate(last.msg.data, lastProgress.duration) >>

\* C8, the other case reached: a position arrived while the duration was 0.
C8_NoDurationReached ==
  /\ Handled("property-change") /\ last.msg.name = "time-pos"
  /\ lastProgress.duration = 0 /\ emitted = << >>

\* load(url) on a controller without a session, then togglePause() before the
\* connect timer of the new session has fired, then no other call and no fault.
LoadThenToggle ==
  /\ Len(opLog) = 2 /\ faults = 0
  /\ opLog[1].f = "load" /\ ~opLog[1].proc
  /\ opLog[2].f = "togglePause" /\ opLog[2].proc /\ opLog[2].socket = NULL

IssuedWritten == SelectSeq(written, LAMBDA n : n # 0)

\* Everything the scenario set in motion has been processed and the file loaded.
Settled ==
  /\ socket = "open" /\ engine.file = "loaded"
  /\ micro = << >> /\ tasks = {} /\ wire = << >> /\ inbound = << >>
  /\ commandQueue = << >>

\* C9 - In that scenario the queue holds loadfile and then set pause true
\* until the socket connects, they are written in that order, and once
\* everything is processed the engine is paused and the phase is Paused.
C9_LoadThenTogglePause ==
  LoadThenToggle =>
    /\ ~isReady =>
         /\ Len(commandQueue) = 3
         /\ commandQueue[1] = [Cmd("loadfile", opLog[1].arg, "replace") EXCEPT !.n = 1]
         /\ commandQueue[2] = [Cmd("set_property", "pause", "true") EXCEPT !.n = 2]
    /\ \A i \in DOMAIN IssuedWritten : IssuedWritten[i] = i
    /\ \A i \in DOMAIN wire :
         /\ wire[i].cmd.n = 1 => wire[i].cmd.v = "loadfile"
         /\ wire[i].cmd.n = 2 => (wire[i].cmd.p = "pause" /\ wire[i].cmd.a = "true")
    /\ Settled => (engine.pause /\ lastKnownState = "Paused" /\ Len(IssuedWritten) = 3)

\* C9 witness: the scenario ran to the end.
C9_Witness == LoadThenToggle /\ Settled /\ engine.pause /\ lastKnownState = "Paused"

\* C10 - setLoop(true) called with no intent URL returns in the same step
\* having stored the flag and neither written nor queued anything; when
\* setLoop(true) reaches `this.loop = enable` with an intent URL it issues
\* exactly one command, set_property loop-file inf, and no loadfile.
C10_SetLoop ==
  /\ \A i \in DOMAIN Calls :
       (Calls[i].f = "setLoop" /\ Calls[i].arg = "true" /\ ~Calls[i].rec
          /\ Calls[i].url = NULL) =>
         /\ i + 1 \in DOMAIN Calls
         /\ Calls[i + 1] = [Calls[i] EXCEPT !.f = "setLoop.tail"]
         /\ loop
         /\ Len(written) = Calls[i].w /\ Len(commandQueue) = Calls[i].q
         /\ issueCount = Calls[i].i
  /\ \A i \in DOMAIN Calls :
       (Calls[i].f = "setLoop.tail" /\ Calls[i].arg = "true" /\ Calls[i].url # NULL) =>
         LET c == [Cmd("set_property", "loop-file", "inf") EXCEPT !.n = issueCount]
         IN /\ loop /\ issueCount = Calls[i].i + 1
            /\ \/ /\ Len(written) = Calls[i].w + 1 /\ Len(commandQueue) = Calls[i].q
                  /\ wire # << >> /\ wire[Len(wire)].cmd = c
               \/ /\ Len(written) = Calls[i].w /\ Len(commandQueue) = Calls[i].q + 1
                  /\ commandQueue[Len(commandQueue)] = c

\* C10 witness: setLoop(true) after play(url), on the connected session.
C10_Witness ==
  /\ Len(opLog) = 2 /\ opLog[1].f = "play" /\ opLog[2].f = "setLoop"
  /\ \E i \in DOMAIN Calls :
       /\ Calls[i].f = "setLoop.tail" /\ Calls[i].arg = "true"
       /\ Calls[i].url # NULL /\ Calls[i].ready
       /\ Len(written) = Calls[i].w + 1

\* C10, the other case reached: setLoop(true) with no track.
C10_NoTrackReached ==
  \E i \in DOMAIN Calls :
    Calls[i].f = "setLoop" /\ Calls[i].arg = "true" /\ Calls[i].url = NULL /\ loop

\* The public commands that stand down during a recovery.
PublicCommands ==
  {"load", "play", "togglePause", "seek", "setVolume", "setSpeed", "setLoop"}

\* The last step was a call of a public command made while a recovery was in
\* progress.
CalledWhileRecovering ==
  /\ last.a \in PublicCommands /\ Len(Calls) >= 1
  /\ Calls[1].f = last.a /\ Calls[1].rec

\* C11 - A public command called while a recovery is in progress changes
\* neither the cached phase, the intent URL, the loop flag nor the queue,
\* emits nothing and writes nothing.
C11_NoOpWhileRecovering ==
  CalledWhileRecovering =>
    /\ lastKnownState = Calls[1].phase /\ currentUrl = Calls[1].url
    /\ loop = Calls[1].loop /\ Len(commandQueue) = Calls[1].q
    /\ emitted = << >> /\ Len(written) = Calls[1].w

\* C11, the case reached by a command that does stand down: seek.
C11_SeekBlockedReached == CalledWhileRecovering /\ last.a = "seek" /\ emitted = << >>

\* The last step was a call of a public command made with no engine process
\* and no recovery in progress.
CalledWithoutProcess ==
  /\ last.a \in PublicCommands /\ Len(Calls) >= 1
  /\ Calls[1].f = last.a /\ ~Calls[1].rec /\ ~Calls[1].proc

\* C12 - Every public command called with no engine process and no recovery
\* in progress starts a process in the call.
C12_SameGuard ==
  CalledWithoutProcess => (mpvProcess /\ spawnCount = Calls[1].spawns + 1)

\* C12, the case reached by the commands that do start a process: load, play.
C12_LoadStartsReached ==
  CalledWithoutProcess /\ last.a = "load" /\ mpvProcess /\ spawnCount = Calls[1].spawns + 1

\* The engine processes started by the controller that are running.
Running == orphans + (IF engine.alive THEN 1 ELSE 0)

\* C13 - At most one engine process started by the controller is running.
C13_OneProcessAlive == Running <= 1

\* C14 - No two spawns of a controller lifetime use the same control-socket
\* address.
C14_FreshAddress ==
  \A i, j \in DOMAIN addresses : i # j => addresses[i] # addresses[j]

\* The loadfile commands of play() that failed: rejected for want of a
\* socket, or written and then rejected by the engine or by the timeout.
FailedPlays ==
  { n \in tally.playTags :
      \/ n \in tally.unsent
      \/ \E id \in DOMAIN written : id \in ReqIds /\ written[id] = n /\ promise[id] = "rejected" }

\* C15 - Each play() whose loadfile failed has led to exactly one finished
\* notification once the continuations have run (in runs without engine
\* events, where nothing else emits finished), and the continuation of
\* play()'s loadfile calls no public method.
C15_FailedPlayFinishes ==
  /\ (events = 0 /\ micro = << >>) => tally.finished = Cardinality(FailedPlays)
  /\ (last.a = "resume" /\ last.arg = "play.then") => Calls = << >>

\* The last step was the end of the wait in recover()'s catch block.
RetryDue == last.a = "sleepTimer" /\ last.arg = "recRetry"

\* C16 - When the wait that follows a failed recovery attempt ends, a further
\* attempt runs: recover() is called, it stops the session and it is then
\* inside its settle delay, on the way to a fresh process.
C16_FailedRecoveryRetries ==
  RetryDue =>
    /\ Len(Calls) >= 2 /\ Calls[1].f = "recover" /\ Calls[2].f = "stop"
    /\ \E r \in Recovering : r.pc = "recSettle"

\* C16, the first half reached: the startup timeout made the recovery emit
\* an error notification and wait.
C16_ErrorEmittedReached ==
  last.a = "startupTimeout" /\ emitted = << ErrorNote >>
    /\ \E r \in Recovering : r.pc = "recRetry"

\* The caller has not called stop().
NeverStopped == \A i \in DOMAIN opLog : opLog[i].f # "stop"

\* C17 - While the caller has not called stop(), outside a recovery and with
\* no call of the controller in progress, the intent URL is the one the most
\* recent load() or play() stored.
C17_IntentSurvives ==
  (NeverStopped /\ tally.intent # NULL /\ ~isRecovering /\ tasks = {} /\ micro = << >>)
    => currentUrl = tally.intent

\* C17, the case reached by a recovery that succeeds: the URL is back.
C17_RestoredReached ==
  /\ last.a = "sleepTimer" /\ last.arg = "recReady" /\ ~isRecovering
  /\ currentUrl = tally.intent /\ currentUrl # NULL

\* The timeout of request id has just fired while the request was outstanding.
TimedOut(id) ==
  /\ last.a = "requestTimeout" /\ Calls # << >>
  /\ Calls[1].f = "requestTimeout" /\ Calls[1].n = id /\ id \in Calls[1].pending

\* C18 - When the timeout of an outstanding request fires, that request's
\* entry leaves the pending map and its promise is rejected, once; every
\* other pending entry, timer and promise is as it was before.
C18_TimeoutRemovesOne ==
  \A id \in ReqIds :
    TimedOut(id) =>
      /\ commandCallbacks = Calls[1].pending \ {id}
      /\ reqTimers = Calls[1].timers \ {id}
      /\ Calls[1].promise[id] = "pending" /\ promise[id] = "rejected"
      /\ \A j \in ReqIds \ {id} : promise[j] = Calls[1].promise[j]

\* C18, its case: a timeout fired while a second request was outstanding.
C18_Witness ==
  \E id \in ReqIds : TimedOut(id) /\ commandCallbacks # {} /\ reqTimers # {}

\* What the framer dispatches when text arrives in a single chunk.
OneChunk(text) ==
  handleSocketData([cur EXCEPT !.buffer = << >>, !.feed = Feed(<< >>)], text).feed.dispatched

\* The part of text after its last newline.
RECURSIVE PartialLine(_)
PartialLine(text) ==
  IF indexOf(text) = 0 THEN text ELSE PartialLine(slice(text, indexOf(text) + 1))

\* The lines of text that a newline ends, in order.
RECURSIVE CompleteLines(_)
CompleteLines(text) ==
  IF indexOf(text) = 0 THEN << >>
  ELSE << SubSeq(text, 1, indexOf(text) - 1) >> \o CompleteLines(slice(text, indexOf(text) + 1))

WellFormed(text) == SelectSeq(CompleteLines(text), Parses)

\* C20 - A chunk that completes only lines that fail to parse leaves the
\* controller as it found it, buffer apart, and emits nothing; the messages
\* dispatched are the well-formed lines that arrived, in their order.
C20_MalformedLineDropped ==
  /\ (last.a = "socketChunk" /\ feed.bad > 0 /\ feed.got = 0) =>
       /\ Snap([cur EXCEPT !.emitted = emitted, !.buffer = Calls[1].buffer],
               "handleSocketData", NULL, 0) = Calls[1]
       /\ lastProgress = [currentTime |-> 0, duration |-> 0]
       /\ emitted = << >>
  /\ Len(feed.dispatched) = Len(WellFormed(feed.arrived))
  /\ \A i \in DOMAIN feed.dispatched :
        feed.dispatched[i] = JSONparse(WellFormed(feed.arrived)[i])

\* C20, its case: a malformed line was dropped and a later well-formed line
\* of the same chunk was dispatched.
C20_Witness ==
  /\ last.a = "socketChunk" /\ feed.bad > 0 /\ feed.got > 0
  /\ ~Parses(CompleteLines(feed.arrived)[1])
  /\ CompleteLines(feed.arrived)[1] # << >>
  /\ Len(CompleteLines(feed.arrived)) = 2 /\ Calls[1].q = 0
  /\ lastKnownState = "Paused"

\* C20, the other case: the chunk held nothing but a malformed line.
C20_OnlyMalformedReached ==
  last.a = "socketChunk" /\ feed.bad = 1 /\ feed.got = 0 /\ feed.dispatched # << >>

\* The connection attempts of the chain of retries that spawn e started.
Dials(e) == Cardinality({ i \in DOMAIN tally.dials : tally.dials[i] = e })

\* The attempt that just failed was the last one its chain is allowed.
Exhausted == last.a = "connectFails" /\ socketRetry > MAX_SOCKET_RETRIES

\* C21 - Against a socket that never connects the chain of retries a spawn
\* starts makes at most MAX_SOCKET_RETRIES + 2 attempts; the failure of the
\* last one emits exactly one error notification and leaves no attempt of
\* that chain scheduled.
C21_RetriesBounded ==
  /\ \A e \in 1..spawnCount : Dials(e) <= MAX_SOCKET_RETRIES + 2
  /\ \A tm \in timers : tm.t \in {"connect", "retry"} => tm.n <= MAX_SOCKET_RETRIES + 1
  /\ Exhausted =>
       /\ emitted = << ErrorNote >>
       /\ ~\E tm \in timers : tm.t \in {"connect", "retry"} /\ tm.e = tally.chain

\* C21, its case: the attempts of a spawn are used up.
C21_Witness == Exhausted /\ \E e \in 1..spawnCount : Dials(e) = MAX_SOCKET_RETRIES + 2

\* C22 - When the attempts of a chain are used up the session is torn down:
\* the process is ended and the process handle, the socket, the outgoing
\* queue and the pending map are cleared.
C22_ExhaustionTearsDown ==
  Exhausted =>
    /\ ~mpvProcess /\ ~engine.alive
    /\ socket = NULL /\ commandQueue = << >> /\ commandCallbacks = {}

\* The last call was a togglePause() made on a connected session, and every
\* reply and event it caused has been processed.
ToggleProcessed ==
  /\ opLog # << >> /\ opLog[Len(opLog)].f = "togglePause"
  /\ opLog[Len(opLog)].socket = "open"
  /\ socket = "open" /\ micro = << >> /\ tasks = {} /\ wire = << >> /\ inbound = << >>

\* C23 - Once a togglePause() on a connected session has been processed, a
\* reported phase of Paused or Playing agrees with the engine's pause
\* property: Paused exactly if it is true.
C23_PhaseFollowsPause ==
  (ToggleProcessed /\ lastKnownState \in {"Paused", "Playing"})
    => (lastKnownState = "Paused" <=> engine.pause)

\* C23, the case where the cycle command is accepted: phase and property agree.
C23_AgreeReached ==
  ToggleProcessed /\ lastKnownState = "Paused" /\ engine.pause /\ faults = 0

\* The step just taken is one that may cancel the file-load timer: its own
\* expiry, a file-loaded, end-file or start-file event, or a step with a stop().
MayCancelFileLoad(l) ==
  \/ l.a = "fileLoadTimer"
  \/ l.a = "socketData" /\ l.msg.event \in {"file-loaded", "end-file", "start-file"}
  \/ \E i \in DOMAIN l.calls : l.calls[i].f = "stop"

\* C24 - An armed file-load timer is cancelled by nothing other than
\* file-loaded, end-file, a newer start-file or stop(), so that it fires and
\* finished is emitted when none of them follows.
C24_FileLoadTimerKept ==
  [][(fileLoadTimeout /\ ~fileLoadTimeout') => MayCancelFileLoad(last')]_vars

\* The engine process is dead, or alive and not answering, under a controller
\* that reports Playing with the stall watchdog armed.
EngineLost ==
  /\ mpvProcess /\ lastKnownState = "Playing" /\ watchdogTimer /\ currentUrl # NULL
  /\ ~isRecovering /\ engine.file = "loaded"
  /\ ~engine.alive \/ engine.hung

\* The stall watchdog has run recover() and now calls play() with the URL.
Replayed == \E i \in DOMAIN Calls : Calls[i].f = "watchdog.play" /\ Calls[i].arg # NULL

\* Nothing is in flight and no callback is pending, the stall watchdog's
\* interval apart.
AtRest ==
  /\ micro = << >> /\ tasks = {} /\ timers = {} /\ reqTimers = {}
  /\ wire = << >> /\ inbound = << >> /\ socket = NULL /\ ~fileLoadTimeout

\* C25 - When the engine dies or stops answering while a track plays, the
\* stall watchdog recovers and calls play() for the URL: with the engine lost
\* and nothing else pending, the watchdog's tick is one that acts.
C25_WatchdogRecovers == (EngineLost /\ AtRest) => TickRuns(cur)

\* C25, the case of an engine that hangs: the watchdog recovers and replays.
C25_HungReplayedReached == Replayed /\ faults = 1 /\ orphans = 1

\* C25: a controller at rest with a dead engine takes no further step.
C25_DeadEnd == [][~(EngineLost /\ AtRest /\ ~TickRuns(cur))]_vars

\* The engine command that a call of seek or togglePause is made for.
CommandOf(f) ==
  IF f = "seek" THEN [v |-> "set_property", p |-> "time-pos"]
  ELSE [v |-> "cycle", p |-> "pause"]

\* The places in the order of writing of the commands made for calls of f.
WrittenAt(f) ==
  { a \in DOMAIN written : written[a] # 0 /\ tally.issued[written[a]] = CommandOf(f) }

\* Calls i and j, of seek and togglePause or the reverse, were made in this
\* order on a connected session.
ConnectedPair(i, j) ==
  /\ i < j /\ {opLog[i].f, opLog[j].f} = {"seek", "togglePause"}
  /\ opLog[i].socket = "open" /\ opLog[j].socket = "open"

\* C26 - Of two commands called one after the other on a connected session
\* whose engine answers, the engine command of the first is written before
\* that of the second.
C26_CallOrderKept ==
  \A i, j \in DOMAIN opLog :
    ConnectedPair(i, j) =>
      \A a \in WrittenAt(opLog[i].f), b \in WrittenAt(opLog[j].f) : a < b

\* C26, the order that is kept: togglePause() called before seek().
C26_ToggleThenSeekReached ==
  /\ \E i, j \in DOMAIN opLog : ConnectedPair(i, j) /\ opLog[i].f = "togglePause"
  /\ WrittenAt("seek") # {} /\ WrittenAt("togglePause") # {}

\* The state-change notifications of the last step.
StateChanges == SelectSeq(emitted, LAMBDA note : note.n = "state-change")

\* C27 - A step that assigns the cached phase emits a state-change carrying
\* each phase it assigns, and the last phase assigned is the cached one.
C27_PhaseChangeNotified ==
  /\ Len(last.set) <= Len(StateChanges)
  /\ \A i \in DOMAIN last.set :
        \E j \in DOMAIN StateChanges : j >= i /\ StateChanges[j] = StateChange(last.set[i])
  /\ last.set # << >> => lastKnownState = last.set[Len(last.set)]

\* C27, its case: an engine event changed the phase.
C27_Witness ==
  /\ last.a = "socketData" /\ last.msg.event = "file-loaded"
  /\ last.set = << "Playing" >> /\ emitted = << StateChange("Playing") >>

\* C27: the cached phase changes in no step that does not record the assignment.
C27_EveryAssignmentSeen == [][lastKnownState' # lastKnownState => last'.set # << >>]_vars

NoProgress == [currentTime |-> 0, duration |-> 0]

\* recover() has just restarted the engine after its 2 s delay.
Restarted == last.a = "sleepTimer" /\ last.arg = "recSettle" /\ spawnCount >= 2

\* C28 - A recovery resets the progress snapshot to zero, so that what the
\* old session reported is in no later progress-update, and its restart
\* emits Buffering.
C28_RecoveryResetsProgress ==
  /\ isRecovering => lastProgress = NoProgress
  /\ Restarted => \E j \in DOMAIN emitted : emitted[j] = StateChange("Buffering")

\* C28, the part that holds: the restart emits Buffering.
C28_BufferingReached ==
  Restarted /\ emitted = << StateChange("Buffering") >> /\ lastProgress # NoProgress

\* recover() has just found the new session ready and run to its end.
RecoveryLoaded ==
  /\ last.a = "sleepTimer" /\ last.arg = "recReady" /\ ~isRecovering
  /\ tally.captured.url # NULL

ResumeArmed == \E tm \in timers : tm.t = "unpause" /\ tm.e = spawnCount

\* C29 - When a recovery with a captured URL finds its new session ready it
\* issues loadfile for the captured URL, and it arms the issue of
\* set pause=false exactly if the phase captured at its start was Playing;
\* the armed timer issues set_property pause.
C29_RecoveryReloads ==
  /\ RecoveryLoaded =>
        /\ \E a \in DOMAIN Calls :
             /\ Calls[a].f = "checkReady" /\ Calls[a].i < Len(tally.issued)
             /\ tally.issued[Calls[a].i + 1] = [v |-> "loadfile", p |-> tally.captured.url]
             /\ written[Calls[a].w + 1] = Calls[a].i + 1
        /\ ResumeArmed <=> tally.captured.playing
  /\ last.a = "unpauseTimer" =>
        /\ tally.issued # << >>
        /\ tally.issued[Len(tally.issued)] = [v |-> "set_property", p |-> "pause"]

C29_Witness == RecoveryLoaded /\ tally.captured.playing /\ ResumeArmed

C29_NotPlayingReached == RecoveryLoaded /\ ~tally.captured.playing /\ ~ResumeArmed

C29_ResumeIssuedReached == last.a = "unpauseTimer" /\ spawnCount >= 2

\* The a-th call of the step is healthCheck's return; its probes are the two
\* entries before it.
Returned(a) == a \in DOMAIN Calls /\ a > 2 /\ Calls[a].f = "healthCheck.return"
Failed1(a) ==
  \/ Calls[a - 2].n = Unsent
  \/ Calls[a - 2].arg = "timeout"
  \/ Calls[a - 2].n \in ReqIds /\ Calls[a].promise[Calls[a - 2].n] = "rejected"
Passed1(a) ==
  /\ Calls[a - 2].n \in ReqIds /\ Calls[a - 2].arg # "timeout"
  /\ Calls[a].promise[Calls[a - 2].n] = "resolved"
Failed2(a) ==
  \/ Calls[a - 1].n = Unsent
  \/ Calls[a - 1].n \in ReqIds /\ Calls[a].promise[Calls[a - 1].n] = "rejected"
Passed2(a) ==
  Calls[a - 1].n \in ReqIds /\ Calls[a].promise[Calls[a - 1].n] = "resolved"

\* C30 - healthCheck returns false exactly when its primary probe failed (by
\* rejection or by the 5 s timeout) and its retry probe failed too; it
\* returns true when the primary probe succeeded, without a retry, or when
\* the retry succeeded; it makes at most the two probes, and its caller
\* starts recover() exactly on false.
C30_HealthCheckVerdict ==
  \A a \in DOMAIN Calls : Returned(a) =>
    /\ Calls[a - 2].n # NoProbe
    /\ Calls[a].n = 0 <=> (Failed1(a) /\ Failed2(a))
    /\ Calls[a].n = 1 <=> \/ Passed1(a) /\ Calls[a - 1].n = NoProbe
                          \/ Failed1(a) /\ Passed2(a)
    /\ Calls[a].n = 0 <=> (a < Len(Calls) /\ Calls[a + 1].f = "recover")

C30_Witness ==
  \E a \in DOMAIN Calls :
    /\ Returned(a) /\ Calls[a].n = 0
    /\ Calls[a - 2].arg = "timeout" /\ Calls[a - 1].n \in ReqIds

C30_RetryPassesReached ==
  \E a \in DOMAIN Calls : Returned(a) /\ Calls[a].n = 1 /\ Failed1(a) /\ Passed2(a)

C30_PrimaryPassesReached ==
  \E a \in DOMAIN Calls : Returned(a) /\ Calls[a].n = 1 /\ Passed1(a)

\* C31 - The readiness polling loop of recover() has a timer pending only
\* while its recovery still waits for it: once the session is ready, the
\* process is gone or the startup timeout has fired, it is not rearmed.
C31_PollingStops == tally.polls = Waiting

\* C31, the part that holds: the loop ends when the session is ready or the
\* process is gone.
C31_StopsWhenReadyReached ==
  last.a = "sleepTimer" /\ last.arg = "recReady" /\ tally.polls = 0

\* C31: a loop left behind by the timeout goes on after its recovery ended.
C31_PollsOnReached ==
  /\ tally.polls > 0 /\ Waiting = 0 /\ ~isReady /\ mpvProcess /\ ~isRecovering
  /\ micro = << >> /\ tasks = {}

\* A timer of `timers` armed for a session that stop() has since ended: the
\* process is gone or a later one has been spawned.
Stale(tm) == tm.e # spawnCount \/ ~mpvProcess

\* C32 - A step in which a timer armed before a stop() fires creates no
\* socket, arms no further timer, writes and enqueues no command and emits
\* nothing.
C32_StoppedTimersAreInert ==
  [][\A tm \in timers :
       (/\ Stale(tm)
        /\ last'.a \in {"connectTimer", "retryTimer", "unpauseTimer"}
        /\ ~\E x \in timers' : x.t = tm.t /\ x.n = tm.n /\ x.e = tm.e)
       => /\ tally'.dials = tally.dials
          /\ Cardinality(timers') < Cardinality(timers)
          /\ commandQueue' = commandQueue /\ written' = written
          /\ emitted' = << >>]_vars

\* C32: a connection attempt made by a timer of a stopped session while a
\* newer session is current.
C32_StaleDialReached ==
  /\ last.a = "connectTimer" /\ socket = "connecting" /\ tally.chain < spawnCount

\* C32, the part that holds: stop() cancels the stall watchdog and the
\* file-load timer.
C32_WatchdogsCancelled ==
  \A a \in DOMAIN Calls : Calls[a].f = "stop.return" => ~watchdogTimer /\ ~fileLoadTimeout

\* The last call was load() on a connected session, nothing has failed, and
\* everything it set in motion has been processed, file-loaded included.
LoadProcessed ==
  /\ opLog # << >> /\ opLog[Len(opLog)].f = "load"
  /\ opLog[Len(opLog)].proc /\ opLog[Len(opLog)].socket = "open"
  /\ faults = 0 /\ isReady /\ Settled /\ reqTimers = {}

\* C33 - Once a load() on a connected, healthy session and the replies and
\* events that follow it have been processed, the phase is Paused.
C33_LoadEndsPaused == LoadProcessed => lastKnownState = "Paused"

\* C33, the part that holds: load() on a session whose engine was not paused.
C33_AfterPlayHolds ==
  (LoadProcessed /\ Len(opLog) = 2 /\ opLog[1].f = "play") => lastKnownState = "Paused"

C33_AfterPlayReached ==
  LoadProcessed /\ Len(opLog) = 2 /\ opLog[1].f = "play" /\ lastKnownState = "Paused"

\* C33: the engine is paused and the phase says Playing.
C33_PlayingWhilePausedReached ==
  LoadProcessed /\ engine.pause /\ lastKnownState = "Playing"

\* The socket is connected and has stayed so, stop() was never called, and
\* no reply, event, continuation or request timeout is outstanding.
ConnectedAtRest ==
  /\ NeverStopped /\ spawnCount = 1 /\ socket = "open" /\ isReady
  /\ engine.alive /\ ~engine.hung
  /\ micro = << >> /\ tasks = {} /\ wire = << >> /\ inbound = << >> /\ reqTimers = {}

\* C34 - With the socket connected, stop() not called and nothing left to
\* process, no command queued before readiness is still in the queue: each
\* has been written, also when an observe_property request was rejected.
C34_QueueFlushed ==
  ConnectedAtRest =>
    /\ commandQueue = << >>
    /\ \A n \in queuedTags : \E a \in DOMAIN written : written[a] = n

\* C34, the part that holds: when no request fails the queue is flushed.
C34_FlushedReached ==
  ConnectedAtRest /\ faults = 0 /\ queuedTags # {} /\ commandQueue = << >>
  /\ \A n \in queuedTags : \E a \in DOMAIN written : written[a] = n

C34_NoFaultHolds == faults = 0 => C34_QueueFlushed

\* The next microtask is an iteration of the flush loop of handleSocketConnect.
FlushIterates ==
  /\ micro # << >> /\ Head(micro).k = "handleSocketConnect"
  /\ Head(micro).pc = "flush" /\ Head(micro).hops = 0
  /\ commandQueue # << >>

\* C35 - The flush loop terminates: each of its iterations leaves the queue
\* shorter than it found it.
C35_FlushTerminates ==
  [][(FlushIterates /\ last'.a = "resume") => Len(commandQueue') < Len(commandQueue)]_vars

\* C35: an iteration that puts its command back, on a session that is not
\* ready, with its continuation already in the microtask queue.
C35_SpinsReached ==
  /\ last.a = "resume" /\ last.arg = "handleSocketConnect" /\ ~isReady
  /\ commandQueue # << >> /\ micro # << >> /\ Head(micro).pc = "flush"

\* C35, the part that holds: on a session that stays ready the loop empties
\* the queue.
C35_FlushEndsReached ==
  /\ last.a = "resume" /\ last.arg = "handleSocketConnect" /\ isReady
  /\ commandQueue = << >> /\ queuedTags # {} /\ tasks = {} /\ micro = << >>

\* The flush loop of handleSocketConnect runs on a session that is not
\* ready: each iteration puts its command back and continues in a microtask.
FlushSpins ==
  /\ commandQueue # << >> /\ ~isReady
  /\ \E i \in DOMAIN micro : micro[i].k = "handleSocketConnect" /\ micro[i].pc = "flush"

\* C36 - A recovery that is under way can go on to its end: while the
\* recovering flag is set the event loop is never held for good by
\* microtasks, so the timer recover() waits on can fire.
C36_RecoveryCanEnd == isRecovering => ~FlushSpins

\* C36: nothing but the loop's microtasks runs from then on.
C36_SpinNeverEnds == [][FlushSpins => (FlushSpins' /\ last'.a \in {"reaction", "resume"})]_vars

\* C36, the part that holds: the recovering flag is set exactly while one
\* call of recover() is under way, and that call waits on an armed timer
\* (the 2 s delay, the readiness wait with its 15 s limit, the 3 s wait
\* before the retry); every way out of recover() releases the flag.
C36_FlagFollowsCall ==
  /\ isRecovering <=> Recovering # {}
  /\ Cardinality(Recovering) <= 1
  /\ \A t \in Recovering : t.at > 0

C36_FailedEndedReached ==
  /\ last.a = "sleepTimer" /\ last.arg = "recRetry"
  /\ ~isRecovering /\ Recovering = {}

C36_TimedOutReached ==
  last.a = "startupTimeout" /\ isRecovering /\ \E t \in Recovering : t.pc = "recRetry"

\* C37 - No stop() is left with its guard set: between the steps of the
\* controller isStopping is false, and every stop() that does not find the
\* guard set tears the session down and emits the idle phase.
C37_GuardReleased ==
  /\ ~isStopping
  /\ \A a \in DOMAIN Calls :
       (Calls[a].f = "stop" /\ ~Calls[a].stopping) =>
         \E b \in DOMAIN Calls :
           /\ b > a /\ Calls[b].f = "stop.return" /\ ~Calls[b].proc
           /\ Calls[b].e > Calls[a].e /\ emitted[Calls[b].e] = StateChange("None")

\* C37, the part that holds: off Windows the guard is released.
C37_PosixHolds == platform = "posix" => C37_GuardReleased

C37_PosixStopReached ==
  /\ platform = "posix" /\ ~isStopping
  /\ \E a \in DOMAIN Calls : Calls[a].f = "stop" /\ Calls[a].proc

\* The caller has not called stop(), nothing has failed, and no command of
\* the caller has reached a socket yet: the first session is still starting.
StillConnecting ==
  /\ NeverStopped /\ faults = 0 /\ spawnCount >= 1
  /\ \A a \in DOMAIN written : written[a] = 0

\* C38 - Public commands issued while the first session is still connecting
\* leave it alone: its process is not killed, no second process is spawned,
\* and the commands queued for it stay queued.
C38_ConnectingSessionKept ==
  StillConnecting =>
    /\ spawnCount = 1 /\ mpvProcess /\ killAttempts = 0
    /\ clearedTags = {}

\* C38: recover() is started by a command that found the session connecting.
C38_TornDownReached ==
  /\ StillConnecting /\ Len(opLog) = 2 /\ opLog[2].f = "play" /\ opLog[2].proc
  /\ \E a \in DOMAIN Calls : Calls[a].f = "stop" /\ Calls[a].proc /\ Calls[a].q > 0
  /\ clearedTags # {}

\* C38, the part that holds: until its health check has failed the command
\* leaves the session as it is.
C38_QueuedReached ==
  /\ StillConnecting /\ Len(opLog) = 1 /\ spawnCount = 1 /\ mpvProcess
  /\ commandQueue # << >> /\ socket = "connecting"

\* C39 - After a step that emitted state-change notifications the cached
\* phase is the phase the last of them carried (and a step that emits none
\* leaves the cached phase as it was, C27): the phase recover() and the
\* file-loaded handler read is the one last notified.
C39_CacheIsLastNotified ==
  StateChanges # << >> => lastKnownState = StateChanges[Len(StateChanges)].p

\* C39: stop() has notified the idle phase and the cache says Playing.
C39_StaleAfterStopReached ==
  /\ last.a = "stop" /\ emitted = << StateChange("None") >>
  /\ lastKnownState = "Playing"

\* C39, the part that holds: the handlers of engine messages leave the cache
\* equal to what they notified.
C39_MessagesHold == last.a = "socketData" => C39_CacheIsLastNotified

C39_MessageReached ==
  last.a = "socketData" /\ StateChanges # << >> /\ lastKnownState = "Playing"

\* C40 - A command that sendCommand rejected for want of a socket is not in
\* the outgoing queue and has not been written to a socket.
C40_RejectedNotRetained ==
  \A n \in tally.unsent :
    /\ ~\E i \in DOMAIN commandQueue : commandQueue[i].n = n
    /\ ~\E a \in DOMAIN written : written[a] = n

\* C40: play()'s loadfile was rejected for want of a socket, its catch has
\* notified finished, and the command is in the outgoing queue.
C40_RejectedPlayQueuedReached ==
  \E n \in tally.unsent \cap tally.playTags :
    /\ tally.finished > 0 /\ micro = << >>
    /\ \E i \in DOMAIN commandQueue : commandQueue[i].n = n

\* C40, the part that holds: a probe or observe request (isInternal) that is
\* rejected is not queued.
C40_InternalNotQueued == \A i \in DOMAIN commandQueue : commandQueue[i].n # 0

====
